---- MODULE Spec2Model ----
(***************************************************************************)
(* Water depth monitor (CircuitPython): the wake cycle of main.py, the     *)
(* state store of storage_manager.py and the battery policy of             *)
(* power_manager.py, as state machines.                                    *)
(*                                                                         *)
(* Time.  time.monotonic() counts seconds since power-on, and the device   *)
(* is powered off between wake cycles, so every boot starts it again at 0. *)
(* The variable mono is that clock (seconds); the variable now is the      *)
(* local wall-clock time of the RTC at boot (minutes since midnight of day *)
(* 0).  Every timestamp the program stores is a value of mono.             *)
(***************************************************************************)
EXTENDS Integers, Sequences, FiniteSets, TLC

VARIABLES
    state,      \* the in-memory state dict of the running cycle / call sequence
    mono,       \* time.monotonic(), seconds since power-on
    calls,      \* SpecRecord: number of record_transmission_attempt calls made
    successes,  \* SpecRecord: number of those calls with success=True
    streak,     \* SpecRecord history: failures recorded since the last success call
    hist,       \* SpecRecord history: every failure record ever appended, in order
    last,       \* SpecRecord history: the last call (its arguments and the state before it)
    \* ---- the SD card and the RTC: what survives power-off
    stateFile,      \* content of /sd/state.json
    backupFile,     \* content of /sd/backup/state_backup.json
    now,            \* RTC local time at the last boot, minutes since midnight of day 0
    \* ---- main(): locals of the running wake cycle
    pc,                     \* position in main(); "off" between cycles
    power_mgr,              \* TRUE once PowerManager() is constructed
    battery_status,         \* the dict of check_battery_status()
    storage_mgr,            \* TRUE once StorageManager() is constructed
    is_mounted,             \* storage_mgr.is_mounted
    tx_time,                \* <<is_tx_time, tx_slot>> of main.py:87
    pending_transmissions,  \* main.py:88
    transmission_result,    \* main.py:103
    backup_data,            \* save_state: the text read from the state file
    \* ---- history variables (not program state)
    cycles,         \* number of boots so far
    did,            \* what the running cycle has done so far
    bootFile,       \* content of the state file when the running cycle booted
    maxPersisted,   \* largest total_wake_cycles a completed save has written
    wallMem,        \* wall-clock time of the attempts recorded in state
    wallFile,       \* wall-clock time of the attempts recorded in stateFile
    \* ---- SpecSend: perform_transmission, send_data_reading, send_message
    send_pc,        \* position in the call
    caller,         \* who called send_message
    message,        \* send_message: its argument
    max_attempts,   \* send_message: its argument
    is_initialized, \* SatelliteModem.is_initialized
    loop_attempt,   \* send_message: the loop variable attempt (0-based)
    last_error,     \* send_message: the local last_error
    send_return,    \* what send_message returned
    perform_result, \* what perform_transmission returned
    sendLog,        \* history: what the call did, in order, and when
    modem,          \* perform_transmission: its local satellite is an object
    link,           \* the modem's sleep pin: "floating", "awake" or "asleep"
    \* ---- SpecPending: get_pending_transmissions between recordings and reboots
    pendingLog,     \* what the calls made since the last other step returned
    stateAtCall,    \* history: the state dict before the first of those calls
    wallState,      \* history: the state dict, had it wall-clock timestamps
    timeSteps,      \* history: number of waits and reboots so far
    pendRecords,    \* history: number of recordings so far
    pendTx,         \* history: the transmission branch just taken, if any
    \* ---- SpecStore: save_state and load_state on one card
    load_result,    \* what the last load_state call did, if it follows the save
    saved,          \* the last save_state call: its argument and its return
    clean,          \* the state file is as the last save_state left it
    storeOps,       \* history: number of calls and corruptions so far
    \* ---- SpecLog: log_sensor_reading on one card
    logFile,        \* content of /sd/sensor_log.csv: the writes it holds
    logReturn,      \* what the last call returned
    logCalls,       \* history: number of calls so far
    logOk,          \* history: number of calls that returned True
    logPartial,     \* history: a call failed after it had opened the file
    \* ---- SpecMessage: the message send_message hands to the modem
    msg_in,         \* send_message: its argument message
    msg_handed,     \* the argument of rockblock.text_message, if it was called
    msg_return,     \* what send_message returned
    \* ---- SpecBattery: check_battery_status called again and again
    self_is_low,    \* PowerManager.is_low_battery
    batteryLog,     \* history: the dicts the calls returned, in order
    \* ---- SpecAlias: the dicts load_state returns, one StorageManager
    self_default,   \* the list and the dict that self.default_state refers to
    shared,         \* the keys of state whose value is that very list or dict
    aliasOps,       \* number of calls made
    aliasLast       \* history: the last call

recordVars == <<calls, successes, streak, hist, last>>
diskVars == <<stateFile, backupFile>>
localVars == <<power_mgr, battery_status, storage_mgr, is_mounted, tx_time,
               pending_transmissions, transmission_result, backup_data>>
historyVars == <<cycles, did, bootFile, maxPersisted, wallMem, wallFile>>
cycleVars == <<diskVars, now, pc, localVars, historyVars>>

sendVars == <<send_pc, caller, message, max_attempts, is_initialized, loop_attempt,
              last_error, send_return, perform_result, sendLog, modem, link>>
\* the variables of the specifications of single functions
pendingVars == <<pendingLog, stateAtCall, wallState, timeSteps, pendRecords,
                 pendTx>>
storeVars == <<load_result, saved, clean, storeOps>>
logVars == <<logFile, logReturn, logCalls, logOk, logPartial>>
msgVars == <<msg_in, msg_handed, msg_return>>
batteryVars == <<self_is_low, batteryLog>>
aliasVars == <<self_default, shared, aliasOps, aliasLast>>
functionVars == <<storeVars, logVars, msgVars, batteryVars, aliasVars>>
unitVars == <<recordVars, sendVars, pendingVars, functionVars>>

vars == <<state, mono, recordVars, cycleVars, sendVars, pendingVars,
          functionVars>>

(***************************************************************************)
(* Bounds of the model.                                                    *)
(***************************************************************************)
MaxCalls == 12
MaxSuccesses == 2

(***************************************************************************)
(* config.py                                                               *)
(***************************************************************************)
TRANSMISSION_TIMES == << <<5, 0>>, <<13, 0>> >>

Digit(d) ==
    CASE d = 0 -> "0" [] d = 1 -> "1" [] d = 2 -> "2" [] d = 3 -> "3"
      [] d = 4 -> "4" [] d = 5 -> "5" [] d = 6 -> "6" [] d = 7 -> "7"
      [] d = 8 -> "8" [] d = 9 -> "9"

\* f"{hour:02d}:{minute:02d}"
SlotStr(hm) ==
    Digit(hm[1] \div 10) \o Digit(hm[1] % 10) \o ":" \o
    Digit(hm[2] \div 10) \o Digit(hm[2] % 10)

SlotIds == { SlotStr(TRANSMISSION_TIMES[i]) : i \in DOMAIN TRANSMISSION_TIMES }

(***************************************************************************)
(* storage_manager.py: the state record                                    *)
(***************************************************************************)
NoTime == -1    \* stands for the empty string "" of last_wake_time

EmptyMap == [k \in {} |-> 0]

default_state ==
    [ last_successful_transmissions |-> EmptyMap,
      failed_attempts               |-> << >>,
      last_wake_time                |-> NoTime,
      total_wake_cycles             |-> 0,
      sensor_calibration_offset     |-> 0,
      battery_low_count             |-> 0,
      system_errors                 |-> << >> ]

MAX_FAILED_ATTEMPTS == 10

\* m[k] = v of a Python dict
DictPut(m, k, v) == [j \in DOMAIN m \cup {k} |-> IF j = k THEN v ELSE m[j]]

\* m.get(k, d) of a Python dict
DictGet(m, k, d) == IF k \in DOMAIN m THEN m[k] ELSE d

\* s[-n:] of a Python list
PyTail(s, n) == IF Len(s) <= n THEN s ELSE SubSeq(s, Len(s) - n + 1, Len(s))

M_PurgeSlotKeepsAll(failed, time_slot) == failed

\* [attempt for attempt in failed if attempt.get("time_slot") != time_slot]
PurgeSlot(failed, time_slot) ==
    SelectSeq(failed, LAMBDA attempt : attempt.time_slot # time_slot)

M_CapFailedHead(failed) ==
    IF Len(failed) > MAX_FAILED_ATTEMPTS
    THEN SubSeq(failed, 1, MAX_FAILED_ATTEMPTS)
    ELSE failed

\* if len(failed) > 10: failed = failed[-10:]
CapFailed(failed) ==
    IF Len(failed) > MAX_FAILED_ATTEMPTS
    THEN PyTail(failed, MAX_FAILED_ATTEMPTS)
    ELSE failed

M_AttemptMarkedSent(time_slot, timestamp, success, error_message) ==
    [ time_slot |-> time_slot, timestamp |-> timestamp,
      success |-> TRUE, error |-> error_message ]

\* attempt_record, storage_manager.py:193-198
AttemptRecord(time_slot, timestamp, success, error_message) ==
    [ time_slot |-> time_slot, timestamp |-> timestamp,
      success |-> success, error |-> error_message ]

M_SuccessClearsAll(st, time_slot, success, error_message, timestamp) ==
    IF success
    THEN [ st EXCEPT
             !.last_successful_transmissions =
                 DictPut(st.last_successful_transmissions, time_slot, timestamp),
             !.failed_attempts = << >> ]
    ELSE [ st EXCEPT
             !.failed_attempts =
                 CapFailed(Append(st.failed_attempts,
                     AttemptRecord(time_slot, timestamp, success, error_message))) ]

\* StorageManager.record_transmission_attempt; timestamp is its reading of
\* time.monotonic()
record_transmission_attempt(st, time_slot, success, error_message, timestamp) ==
    IF success
    THEN [ st EXCEPT
             !.last_successful_transmissions =
                 DictPut(st.last_successful_transmissions, time_slot, timestamp),
             !.failed_attempts = PurgeSlot(st.failed_attempts, time_slot) ]
    ELSE [ st EXCEPT
             !.failed_attempts =
                 CapFailed(Append(st.failed_attempts,
                     AttemptRecord(time_slot, timestamp, success, error_message))) ]

FRESH_HOURS == 12
RETRY_HOURS == 6
SECONDS_PER_HOUR == 3600

NoAttempt == << >>    \* None
NoCall == [ op |-> "none" ]

\* the failure records of time_slot less than 6 hours before current_time
RecentFailures(st, time_slot, current_time) ==
    SelectSeq(st.failed_attempts,
        LAMBDA attempt : /\ attempt.time_slot = time_slot
                         /\ current_time - attempt.timestamp
                                < RETRY_HOURS * SECONDS_PER_HOUR)

\* last_success = state["last_successful_transmissions"].get(time_slot, 0)
\* current_time - last_success < 12 * 3600
SuccessIsFresh(st, time_slot, current_time) ==
    current_time - DictGet(st.last_successful_transmissions, time_slot, 0)
        < FRESH_HOURS * SECONDS_PER_HOUR

\* one pass of the loop of get_pending_transmissions: the entries slot i adds
PendingOfSlot(st, time_slot, current_time, is_time) ==
    LET recent_failures == RecentFailures(st, time_slot, current_time) IN
    IF SuccessIsFresh(st, time_slot, current_time) THEN << >>
    ELSE IF recent_failures # << >>
    THEN << [ time_slot    |-> time_slot,
              retry_count  |-> Len(recent_failures),
              last_attempt |-> recent_failures[Len(recent_failures)] ] >>
    ELSE IF is_time
    THEN << [ time_slot |-> time_slot, retry_count |-> 0,
              last_attempt |-> NoAttempt ] >>
    ELSE << >>

RECURSIVE PendingFrom(_, _, _, _)
PendingFrom(i, st, current_time, is_time) ==
    IF i > Len(TRANSMISSION_TIMES) THEN << >>
    ELSE PendingOfSlot(st, SlotStr(TRANSMISSION_TIMES[i]), current_time, is_time)
             \o PendingFrom(i + 1, st, current_time, is_time)

\* StorageManager.get_pending_transmissions; current_time is its reading of
\* time.monotonic(), is_time what current_time_manager.is_transmission_time()
\* answers
get_pending_transmissions(st, current_time, is_time) ==
    PendingFrom(1, st, current_time, is_time)

M_GetSetsDefault(m, k, d) == IF k \in DOMAIN m THEN m ELSE DictPut(m, k, d)

\* the dict m after m.get(k, d): get_pending_transmissions only reads
DictAfterGet(m, k, d) == m

RECURSIVE ReadSlots(_, _)
\* last_successful_transmissions after the .get of every pass of the loop
ReadSlots(i, m) ==
    IF i > Len(TRANSMISSION_TIMES) THEN m
    ELSE ReadSlots(i + 1, DictAfterGet(m, SlotStr(TRANSMISSION_TIMES[i]), 0))

NoTx == [ called |-> FALSE ]

PendingIdle ==
    /\ pendingLog = << >>
    /\ stateAtCall = EmptyMap
    /\ wallState = EmptyMap
    /\ timeSteps = 0
    /\ pendRecords = 0
    /\ pendTx = NoTx

\* ---- the files of the SD card
Absent == [ kind |-> "absent" ]          \* no such file
Truncated == [ kind |-> "truncated" ]    \* opened for writing, not completely written
Scalar == [ kind |-> "scalar" ]          \* complete JSON, not an object: 42

\* json.dump(doc, f) of a dict: the text of the file, the set of the
\* "key": value members of one JSON object
json_dump(doc) == { <<k, doc[k]>> : k \in DOMAIN doc }

\* json.load(f) of the text of a JSON object
json_load(text) ==
    [ k \in { member[1] : member \in text } |->
        (CHOOSE member \in text : member[1] = k)[2] ]

Json(doc) == [ kind |-> "json", text |-> json_dump(doc) ]   \* a complete json.dump

M_DefaultsWin(doc) ==
    [ k \in DOMAIN default_state \cup DOMAIN doc |->
        IF k \in DOMAIN default_state THEN default_state[k] ELSE doc[k] ]

\* merged_state = self.default_state.copy(); merged_state.update(state)
MergeDefaults(doc) ==
    [ k \in DOMAIN default_state \cup DOMAIN doc |->
        IF k \in DOMAIN doc THEN doc[k] ELSE default_state[k] ]

\* StorageManager.load_state on a mounted card: open() raises OSError on a
\* missing file and json.load ValueError on an incomplete one
load_state(file) ==
    IF file.kind = "json" THEN MergeDefaults(json_load(file.text))
    ELSE default_state

\* load_state as its caller sees it: initialize() when the card is not
\* mounted, the default state when that fails; merged_state.update(state)
\* raises TypeError when json.load returned no dict, and the except clause
\* names OSError, ValueError and KeyError only
LoadOutcome(mounted, file) ==
    IF ~mounted
    THEN [ raised |-> FALSE, value |-> default_state ]
    ELSE IF file.kind = "scalar"
    THEN [ raised |-> TRUE, value |-> "TypeError" ]
    ELSE [ raised |-> FALSE, value |-> load_state(file) ]

(***************************************************************************)
(* time_manager.py                                                         *)
(***************************************************************************)
MINUTES_PER_DAY == 1440
TOLERANCE_MINUTES == 5
NoSlot == << >>    \* None

Abs(x) == IF x < 0 THEN -x ELSE x

MinutesDiff(current_total_minutes, target) ==
    LET minutes_diff == Abs(current_total_minutes - (target[1] * 60 + target[2])) IN
    IF minutes_diff > 12 * 60 THEN 24 * 60 - minutes_diff ELSE minutes_diff

\* TimeManager.is_transmission_time at Pacific time-of-day current_total_minutes:
\* the first configured slot within the tolerance
is_transmission_time(current_total_minutes, tolerance_minutes) ==
    LET hits == { i \in DOMAIN TRANSMISSION_TIMES :
                    MinutesDiff(current_total_minutes, TRANSMISSION_TIMES[i])
                        <= tolerance_minutes } IN
    IF hits = {} THEN <<FALSE, NoSlot>>
    ELSE <<TRUE, TRANSMISSION_TIMES[CHOOSE i \in hits : \A j \in hits : i <= j]>>

(***************************************************************************)
(* power_manager.py, voltages in millivolts                                *)
(***************************************************************************)
LOW_BATTERY_THRESHOLD == 3200
CRITICAL_VOLTAGE == 3000

\* PowerManager.read_battery_voltage: <<returned voltage, self.is_low_battery>>;
\* read_fails when self.battery_monitor is None or reading its value raises
read_battery_voltage(read_fails, reading, is_low_battery) ==
    IF read_fails THEN <<0, is_low_battery>>
    ELSE <<reading, reading < LOW_BATTERY_THRESHOLD>>

\* PowerManager.check_battery_status
check_battery_status(read_fails, reading, is_low_battery) ==
    LET r == read_battery_voltage(read_fails, reading, is_low_battery)
        voltage == r[1]
        is_low == r[2] IN
    [ voltage |-> voltage,
      is_low  |-> is_low,
      recommendation |->
          IF is_low
          THEN IF voltage < CRITICAL_VOLTAGE THEN "emergency_shutdown"
               ELSE IF voltage < LOW_BATTERY_THRESHOLD THEN "conserve_power"
               ELSE "monitor_closely"
          ELSE "normal" ]

M_SkipOnlyEmergency(status) == status.recommendation = "emergency_shutdown"

\* PowerManager.should_skip_transmission, its first component
should_skip_transmission(status) ==
    status.recommendation \in {"emergency_shutdown", "conserve_power"}

(***************************************************************************)
(* satellite.py, as main.py sees it: what perform_transmission returns and *)
(* how long it takes                                                       *)
(***************************************************************************)
MAX_RETRY_ATTEMPTS == 3
SEND_FAILURE == "RockBlock reported send failure"
RETRY_BACKOFF_MINUTES == <<5, 15, 30>>
MODEM_WAKE_SECONDS == 3    \* wake_up() sleeps 1 s, initialize() 2 s more
INIT_FAILURE == "Failed to initialize satellite modem"

RECURSIVE BackoffBefore(_)
\* seconds slept in backoff before attempt number k (1-based) starts
BackoffBefore(k) ==
    IF k <= 1 THEN 0
    ELSE BackoffBefore(k - 1)
         + 60 * RETRY_BACKOFF_MINUTES[
                  IF k - 1 < Len(RETRY_BACKOFF_MINUTES)
                  THEN k - 1 ELSE Len(RETRY_BACKOFF_MINUTES)]

\* the results perform_transmission can return
TransmissionResults ==
    { [ success |-> TRUE, attempts |-> k, error |-> "" ] :
          k \in 1..MAX_RETRY_ATTEMPTS }
    \cup { [ success |-> FALSE, attempts |-> MAX_RETRY_ATTEMPTS,
             error |-> SEND_FAILURE ],
           [ success |-> FALSE, attempts |-> 0, error |-> INIT_FAILURE ] }

\* seconds perform_transmission takes to return result
TransmissionSeconds(result) ==
    MODEM_WAKE_SECONDS
    + IF result.attempts = 0 THEN 0 ELSE BackoffBefore(result.attempts)

\* ---- send_message, satellite.py:105-166
MaxAttemptsBound == 5      \* largest max_attempts a caller passes

POOR_SIGNAL_SECONDS == 30
MODEM_INIT_ERROR == "Failed to initialize RockBlock"
POOR_SIGNAL_ERROR == "Poor signal quality"
SEND_EXCEPTION == "Exception during send"
EMPTY_MESSAGE == "Empty message"
DATA_MESSAGE == "WD:reading"      \* a formatted reading, MESSAGE_FORMAT

SignalQualities == { -1, 0, 1, 3 }   \* -1: the query failed; 0..5 bars
Replies == { "sent", "failed", "raises" }    \* text_message: True, False, raise

Min(a, b) == IF a < b THEN a ELSE b

M_LoopRunsOnceMore(k, n) == k <= n

\* for attempt in range(max_attempts): the loop body runs for attempt k
LoopContinues(k, n) == k < n

M_BackoffAlwaysFirst(k) == RETRY_BACKOFF_MINUTES[1]

\* RETRY_BACKOFF_MINUTES[min(attempt, len(RETRY_BACKOFF_MINUTES) - 1)], k 0-based
BackoffMinutes(k) ==
    RETRY_BACKOFF_MINUTES[Min(k, Len(RETRY_BACKOFF_MINUTES) - 1) + 1]

\* if attempt < max_attempts - 1
BackoffDue(k, n) == k < n - 1

M_ConfirmedUnlessRaised(reply) == reply # "raises"

\* "if success:" on what text_message returned
Confirmed(reply) == reply = "sent"

\* an entry of sendLog: event ev of attempt k (0-based), at clock value at
Event(ev, k, n, at) == [ ev |-> ev, k |-> k, n |-> n, at |-> at ]

ReplyCode(reply) ==
    CASE reply = "sent" -> 1 [] reply = "failed" -> 0 [] reply = "raises" -> -1

NoReturn == << >>
NoResult == [ attempts |-> -1 ]

NoLoad == [ called |-> FALSE ]
NoSave == [ called |-> FALSE ]

StoreIdle ==
    /\ load_result = NoLoad
    /\ saved = NoSave
    /\ clean = FALSE
    /\ storeOps = 0

LogIdle ==
    /\ logFile = Absent
    /\ logReturn = NoReturn
    /\ logCalls = 0
    /\ logOk = 0
    /\ logPartial = FALSE

NoMessage == [ chars |-> -1 ]

MessageIdle ==
    /\ msg_in = NoMessage
    /\ msg_handed = NoMessage
    /\ msg_return = NoReturn

BatteryIdle ==
    /\ self_is_low = FALSE
    /\ batteryLog = << >>

\* the containers a StorageManager is constructed with
DefaultContainers ==
    [ last_successful_transmissions |-> default_state.last_successful_transmissions,
      failed_attempts               |-> default_state.failed_attempts ]

AliasIdle ==
    /\ self_default = DefaultContainers
    /\ shared = {}
    /\ aliasOps = 0
    /\ aliasLast = NoCall

FunctionsIdle == StoreIdle /\ LogIdle /\ MessageIdle /\ BatteryIdle /\ AliasIdle

SendIdle ==
    /\ send_pc = "idle"
    /\ caller = "none"
    /\ message = ""
    /\ max_attempts = 0
    /\ is_initialized = FALSE
    /\ loop_attempt = 0
    /\ last_error = ""
    /\ send_return = NoReturn
    /\ perform_result = NoResult
    /\ sendLog = << >>
    /\ modem = FALSE
    /\ link = "floating"

(***************************************************************************)
(* main.py: the wake cycle.  One boot runs main() once, from "start" to    *)
(* "done"; the TPL5110 then cuts power.  Power can also be lost at any     *)
(* point of a cycle.  A boot comes gap minutes after the one before it,    *)
(* and not before the cycle before it has ended.                           *)
(***************************************************************************)
MaxCycles == 4

StartTimes == { 4 * 60 + 45 }      \* RTC local time before the first boot
WakeGaps == { 10, 60, 8 * 60 }     \* minutes from one boot to the next
BatteryReadings == { 2900, 3100, 3700 }     \* millivolts

NoStatus == [ recommendation |-> "none" ]
NoState == EmptyMap
EmptyWall == [ succ |-> EmptyMap, fail |-> EmptyMap ]

DidNothing ==
    [ signal |-> 0,        \* done pulses (PowerManager.signal_done)
      tx |-> 0,            \* perform_transmission calls
      sensor |-> 0,        \* sensor reads
      load |-> 0,          \* load_state calls
      save_call |-> 0,     \* save_state calls
      save_arg |-> NoState,    \* the state dict passed to the last of them
      save |-> 0,          \* save_state calls that wrote the state file
      log |-> 0,           \* rows appended to the reading log
      log_fail |-> 0,      \* log_sensor_reading calls that returned False
      err |-> << >>,       \* categories of the rows appended to the error log
      raised |-> FALSE ]   \* an exception reached the handler of main()

\* wall-clock time in seconds
WallSeconds == now * 60 + mono

LocalsIdle ==
    /\ power_mgr = FALSE
    /\ battery_status = NoStatus
    /\ storage_mgr = FALSE
    /\ is_mounted = FALSE
    /\ tx_time = <<FALSE, NoSlot>>
    /\ pending_transmissions = << >>
    /\ transmission_result = NoResult
    /\ backup_data = Absent

RecordIdle ==
    /\ calls = 0
    /\ successes = 0
    /\ streak = 0
    /\ hist = << >>
    /\ last = NoCall

InitCycle ==
    /\ pc = "off"
    /\ state = NoState
    /\ mono = 0
    /\ now \in StartTimes
    /\ stateFile = Absent
    /\ backupFile = Absent
    /\ LocalsIdle
    /\ cycles = 0
    /\ did = DidNothing
    /\ bootFile = Absent
    /\ maxPersisted = 0
    /\ wallMem = EmptyWall
    /\ wallFile = EmptyWall
    /\ RecordIdle
    /\ SendIdle
    /\ FunctionsIdle
    /\ PendingIdle

\* the power comes on: the TPL5110 timer fires
Boot(gap) ==
    /\ pc = "off"
    /\ cycles < MaxCycles
    /\ gap * 60 >= mono
    /\ pc' = "start"
    /\ now' = now + gap
    /\ mono' = 0
    /\ cycles' = cycles + 1
    /\ bootFile' = stateFile
    /\ UNCHANGED <<state, diskVars, localVars, did, maxPersisted, wallMem,
                   wallFile, unitVars>>

\* an exception propagates to "except Exception as e" of main()
Raise ==
    /\ pc' = "except"
    /\ did' = [did EXCEPT !.raised = TRUE]

\* main.py:46-50, power_mgr = PowerManager()
ConstructPowerManager ==
    /\ pc = "start"
    /\ \/ /\ power_mgr' = TRUE
          /\ pc' = "battery"
          /\ did' = did
       \/ /\ power_mgr' = power_mgr      \* digitalio.DigitalInOut raises
          /\ Raise
    /\ UNCHANGED <<state, mono, diskVars, now, battery_status, storage_mgr,
                   is_mounted, tx_time, pending_transmissions,
                   transmission_result, backup_data, cycles, bootFile,
                   maxPersisted, wallMem, wallFile, unitVars>>

\* PowerManager.handle_emergency_shutdown(None, ...): the number of done
\* pulses it adds
handle_emergency_shutdown(signals) == signals + 1

\* handle_emergency_shutdown, power_manager.py:175-179: "if storage_manager:
\* storage_manager.log_error(..., "POWER_CRITICAL")"; main.py:59 passes None
EmergencyLog(storage_manager, err) ==
    IF storage_manager THEN Append(err, "POWER_CRITICAL") ELSE err

\* main.py:53-60
CheckBattery(read_fails, reading) ==
    /\ pc = "battery"
    /\ battery_status' = check_battery_status(read_fails, reading, FALSE)
    /\ IF battery_status'.recommendation = "emergency_shutdown"
       THEN /\ did' = [did EXCEPT !.signal = handle_emergency_shutdown(@),
                                     !.err = EmergencyLog(FALSE, @)]
            /\ pc' = "finally"       \* return
       ELSE /\ did' = did
            /\ pc' = "storage"
    /\ UNCHANGED <<state, mono, diskVars, now, power_mgr, storage_mgr,
                   is_mounted, tx_time, pending_transmissions,
                   transmission_result, backup_data, cycles, bootFile,
                   maxPersisted, wallMem, wallFile, unitVars>>

\* main.py:63-67, StorageManager() and initialize()
InitStorage(mounts) ==
    /\ pc = "storage"
    /\ storage_mgr' = TRUE
    /\ is_mounted' = mounts
    /\ pc' = "load"
    /\ UNCHANGED <<state, mono, diskVars, now, power_mgr, battery_status,
                   tx_time, pending_transmissions, transmission_result,
                   backup_data, historyVars, unitVars>>

M_CounterKept(st) ==
    DictPut(st, "total_wake_cycles", DictGet(st, "total_wake_cycles", 0))

\* state["total_wake_cycles"] = state.get("total_wake_cycles", 0) + 1
IncrementWakeCycles(st) ==
    DictPut(st, "total_wake_cycles", DictGet(st, "total_wake_cycles", 0) + 1)

\* main.py:70-72
LoadState ==
    /\ pc = "load"
    /\ LET loaded == IF is_mounted THEN load_state(stateFile) ELSE EmptyMap IN
       state' = DictPut(IncrementWakeCycles(loaded), "last_wake_time", mono)
    /\ did' = [did EXCEPT !.load = IF is_mounted THEN @ + 1 ELSE @]
    /\ wallMem' = IF is_mounted /\ stateFile.kind = "json"
                  THEN wallFile ELSE EmptyWall
    /\ pc' = "peripherals"
    /\ UNCHANGED <<mono, diskVars, now, localVars, cycles, bootFile,
                   maxPersisted, wallFile, unitVars>>

\* main.py:77-84, the I2C bus, TimeManager and PressureSensor
InitPeripherals ==
    /\ pc = "peripherals"
    /\ \/ /\ pc' = "decide"
          /\ did' = did
       \/ Raise                      \* no RTC on the bus, a pin in use
    /\ UNCHANGED <<state, mono, diskVars, now, localVars, cycles, bootFile,
                   maxPersisted, wallMem, wallFile, unitVars>>

\* should_transmit = is_tx_time or len(pending_transmissions) > 0
ShouldTransmit(is_tx_time, pending) == is_tx_time \/ Len(pending) > 0

\* main.py:87-100
Decide ==
    /\ pc = "decide"
    /\ tx_time' = is_transmission_time(now % MINUTES_PER_DAY, TOLERANCE_MINUTES)
    /\ pending_transmissions' =
           IF is_mounted
           THEN get_pending_transmissions(state, mono,
                    is_transmission_time(now % MINUTES_PER_DAY,
                                         TOLERANCE_MINUTES)[1])
           ELSE << >>
    /\ IF ShouldTransmit(tx_time'[1], pending_transmissions')
       THEN IF should_skip_transmission(battery_status)
            THEN /\ did' = [did EXCEPT !.err =
                               IF is_mounted THEN Append(@, "POWER") ELSE @]
                 /\ pc' = "save"
            ELSE /\ did' = did
                 /\ pc' = "transmit"
       ELSE /\ did' = did
            /\ pc' = "notx"
    /\ UNCHANGED <<state, mono, diskVars, now, power_mgr, battery_status,
                   storage_mgr, is_mounted, transmission_result, backup_data,
                   cycles, bootFile, maxPersisted, wallMem, wallFile,
                   unitVars>>

\* main.py:103, perform_transmission; it reads the sensor once the modem is
\* initialized
Transmit(result) ==
    /\ pc = "transmit"
    /\ transmission_result' = result
    /\ mono' = mono + TransmissionSeconds(result)
    /\ did' = [did EXCEPT !.tx = @ + 1,
                          !.sensor = IF result.error = INIT_FAILURE
                                     THEN @ ELSE @ + 1]
    /\ pc' = "txlog"
    /\ UNCHANGED <<state, diskVars, now, power_mgr, battery_status,
                   storage_mgr, is_mounted, tx_time, pending_transmissions,
                   backup_data, cycles, bootFile, maxPersisted, wallMem,
                   wallFile, unitVars>>

\* the wall-clock times that go with record_transmission_attempt
WallRecord(wall, time_slot, success, at) ==
    IF success
    THEN [ succ |-> DictPut(wall.succ, time_slot, at),
           fail |-> [k \in DOMAIN wall.fail \ {time_slot} |-> wall.fail[k]] ]
    ELSE [ wall EXCEPT !.fail = DictPut(wall.fail, time_slot, at) ]

\* log_sensor_reading, storage_manager.py:130-166, in the counts of the
\* cycle: it appends its row and returns True, or a write raises OSError and
\* it returns False
LogCall(d, written) ==
    IF written THEN [d EXCEPT !.log = @ + 1]
    ELSE [d EXCEPT !.log_fail = @ + 1]

\* main.py:106-123
LogTransmission ==
    /\ pc = "txlog"
    /\ \/ /\ is_mounted
          /\ \E written \in BOOLEAN :
                did' = LogCall([did EXCEPT !.sensor = @ + 1], written)
          /\ IF tx_time[2] # NoSlot
             THEN /\ state' = record_transmission_attempt(state,
                                  SlotStr(tx_time[2]),
                                  transmission_result.success,
                                  transmission_result.error, mono)
                  /\ wallMem' = WallRecord(wallMem, SlotStr(tx_time[2]),
                                    transmission_result.success, WallSeconds)
             ELSE UNCHANGED <<state, wallMem>>
          /\ pc' = "save"
       \/ /\ is_mounted              \* the sensor or the RTC read raises
          /\ Raise
          /\ UNCHANGED <<state, wallMem>>
       \/ /\ ~is_mounted
          /\ pc' = "save"
          /\ UNCHANGED <<state, wallMem, did>>
    /\ UNCHANGED <<mono, diskVars, now, localVars, cycles, bootFile,
                   maxPersisted, wallFile, unitVars>>

\* main.py:126-139
NoTransmission ==
    /\ pc = "notx"
    /\ \/ /\ \E written \in BOOLEAN :
                did' = IF is_mounted
                       THEN LogCall([did EXCEPT !.sensor = @ + 1], written)
                       ELSE [did EXCEPT !.sensor = @ + 1]
          /\ pc' = "save"
       \/ Raise                      \* the RTC or the sensor read raises
    /\ UNCHANGED <<state, mono, diskVars, now, localVars, cycles, bootFile,
                   maxPersisted, wallMem, wallFile, unitVars>>

M_SaveAlways(mounted) == TRUE

\* main.py:142, "if storage_mgr.is_mounted:" before save_state
SaveGuard(mounted) == mounted

\* main.py:142-143 and save_state, storage_manager.py:109-112: read the state
\* file and open the backup file for writing
SaveBegin ==
    /\ pc = "save"
    /\ IF ~SaveGuard(is_mounted)
       THEN /\ pc' = "diag"
            /\ UNCHANGED <<backup_data, backupFile, did>>
       ELSE /\ did' = [did EXCEPT !.save_call = @ + 1, !.save_arg = state]
            /\ IF stateFile = Absent
               THEN /\ pc' = "save_open"    \* open(STATE_FILE, 'r') raises:
                    /\ UNCHANGED <<backup_data, backupFile>>  \* no backup
               ELSE /\ backup_data' = stateFile
                    /\ backupFile' = Truncated
                    /\ pc' = "save_backup"
    /\ UNCHANGED <<state, mono, stateFile, now, power_mgr, battery_status,
                   storage_mgr, is_mounted, tx_time, pending_transmissions,
                   transmission_result, cycles, bootFile, maxPersisted,
                   wallMem, wallFile, unitVars>>

\* storage_manager.py:113, f.write(backup_data) and close
SaveBackupWrite ==
    /\ pc = "save_backup"
    /\ backupFile' = backup_data
    /\ pc' = "save_open"
    /\ UNCHANGED <<state, mono, stateFile, now, localVars, historyVars,
                   unitVars>>

\* storage_manager.py:118, open(STATE_FILE, 'w'); when it raises, save_state
\* returns False (storage_manager.py:125-128) and main() goes on
SaveOpen ==
    /\ pc = "save_open"
    /\ \/ /\ stateFile' = Truncated
          /\ pc' = "save_dump"
       \/ /\ stateFile' = stateFile
          /\ pc' = "diag"
    /\ UNCHANGED <<state, mono, backupFile, now, localVars, historyVars,
                   unitVars>>

\* storage_manager.py:119, json.dump(state, f) and close, or a write error
\* that leaves the file incomplete
SaveDump ==
    /\ pc = "save_dump"
    /\ \/ /\ stateFile' = Json(state)
          /\ did' = [did EXCEPT !.save = @ + 1]
          /\ maxPersisted' = IF state.total_wake_cycles > maxPersisted
                             THEN state.total_wake_cycles ELSE maxPersisted
          /\ wallFile' = wallMem
       \/ UNCHANGED <<stateFile, did, maxPersisted, wallFile>>
    /\ pc' = "diag"
    /\ UNCHANGED <<state, mono, backupFile, now, localVars, cycles, bootFile,
                   wallMem, unitVars>>

\* main.py:146, print_system_diagnostics: it reads the sensor and catches
\* what its reads raise
PrintDiagnostics ==
    /\ pc = "diag"
    /\ did' = [did EXCEPT !.sensor = @ + 1]
    /\ pc' = "finally"
    /\ UNCHANGED <<state, mono, diskVars, now, localVars, cycles, bootFile,
                   maxPersisted, wallMem, wallFile, unitVars>>

M_HandlerLogsNothing(sm, mounted, err) == err

\* main.py:153-154, "if storage_mgr and storage_mgr.is_mounted:
\* storage_mgr.log_error(..., "SYSTEM")"
HandlerLog(sm, mounted, err) ==
    IF sm /\ mounted THEN Append(err, "SYSTEM") ELSE err

\* main.py:148-154
HandleException ==
    /\ pc = "except"
    /\ did' = [did EXCEPT !.err = HandlerLog(storage_mgr, is_mounted, @)]
    /\ pc' = "finally"
    /\ UNCHANGED <<state, mono, diskVars, now, localVars, cycles, bootFile,
                   maxPersisted, wallMem, wallFile, unitVars>>

M_FinallySignalsUnlessRaised(pm, d) ==
    IF pm /\ ~d.raised THEN d.signal + 1 ELSE d.signal

\* main.py:170-171, "if power_mgr: power_mgr.signal_done()": the done pulses
\* of the cycle after it
FinallySignal(pm, d) == IF pm THEN d.signal + 1 ELSE d.signal

\* main.py:156-177
Finally ==
    /\ pc = "finally"
    /\ did' = [did EXCEPT !.signal = FinallySignal(power_mgr, did)]
    /\ pc' = "done"
    /\ UNCHANGED <<state, mono, diskVars, now, localVars, cycles, bootFile,
                   maxPersisted, wallMem, wallFile, unitVars>>

\* everything in RAM is gone
PowerOff ==
    /\ pc' = "off"
    /\ state' = NoState
    /\ power_mgr' = FALSE
    /\ battery_status' = NoStatus
    /\ storage_mgr' = FALSE
    /\ is_mounted' = FALSE
    /\ tx_time' = <<FALSE, NoSlot>>
    /\ pending_transmissions' = << >>
    /\ transmission_result' = NoResult
    /\ backup_data' = Absent
    /\ did' = DidNothing
    /\ bootFile' = Absent
    /\ wallMem' = EmptyWall
    /\ UNCHANGED <<mono, diskVars, now, cycles, maxPersisted, wallFile,
                   unitVars>>

\* the TPL5110 cuts power after the cycle
PowerDown ==
    /\ pc = "done"
    /\ PowerOff

\* power is lost in the middle of a cycle
PowerLoss ==
    /\ pc \notin {"off", "done"}
    /\ PowerOff

\* the steps of main() and the power-on and power-off that frame it
CycleStep ==
    \/ \E gap \in WakeGaps : Boot(gap)
    \/ ConstructPowerManager
    \/ \E read_fails \in BOOLEAN, reading \in BatteryReadings :
           CheckBattery(read_fails, reading)
    \/ \E mounts \in BOOLEAN : InitStorage(mounts)
    \/ LoadState
    \/ InitPeripherals
    \/ Decide
    \/ \E result \in TransmissionResults : Transmit(result)
    \/ LogTransmission
    \/ NoTransmission
    \/ SaveBegin
    \/ SaveBackupWrite
    \/ SaveOpen
    \/ SaveDump
    \/ PrintDiagnostics
    \/ HandleException
    \/ Finally
    \/ PowerDown

NextCycle == CycleStep \/ PowerLoss

\* wake cycles with power loss possible at every step
Spec == InitCycle /\ [][NextCycle]_vars

\* wake cycles that all run to their end
SpecNoPowerLoss == InitCycle /\ [][CycleStep]_vars

Emergency == battery_status.recommendation = "emergency_shutdown"

\* what a cycle has worked so far: sensor, transmission and storage
CycleWork ==
    <<did.sensor, did.tx, did.load, did.save, did.log, did.err, stateFile,
      backupFile, state>>

\* C1: in a wake cycle that is not on the emergency path and has constructed
\* the power manager, the done pulse is emitted exactly once, by the step that
\* ends the cycle: no pulse before it, and after the pulse no sensor,
\* transmission or storage work.
C1_DoneOnceAndLast ==
    /\ [](~Emergency =>
             did.signal = IF pc = "done" /\ power_mgr THEN 1 ELSE 0)
    /\ [][(did.signal >= 1 /\ ~Emergency) =>
             (pc' = "off" \/ (CycleWork' = CycleWork /\ did'.signal = did.signal))]_vars

\* a cycle that transmitted, recorded, saved and then pulsed once; and a
\* cycle whose body raised after the state was loaded, and pulsed once
C1_Witness ==
    /\ pc = "done"
    /\ did.signal = 1
    /\ \/ did.tx = 1 /\ did.save = 1 /\ did.log = 1
       \/ did.raised /\ did.load = 1

\* C2: on the emergency-shutdown path the cycle reads no sensor, invokes no
\* Transmitter, loads and saves no state, and emits the done pulse exactly once.
C2_EmergencySignalsOnce ==
    (pc = "done" /\ Emergency) =>
        /\ did.sensor = 0 /\ did.tx = 0 /\ did.load = 0 /\ did.save = 0
        /\ did.signal = 1

\* C3: no execution of main() ends without a signal_done attempt.
C3_SignalAlwaysAttempted ==
    pc = "done" => did.signal >= 1

\* C4: the Transmitter is not invoked in the tolerance window of a slot whose
\* recorded success is less than 12 hours old.
C4_NoRepeatWithinFreshness ==
    \A S \in SlotIds :
        ~ /\ pc = "txlog"
          /\ did.tx >= 1
          /\ is_mounted
          /\ tx_time[2] # NoSlot
          /\ SlotStr(tx_time[2]) = S
          /\ S \in DOMAIN state.last_successful_transmissions
          /\ S \in DOMAIN wallMem.succ
          /\ now * 60 - wallMem.succ[S] < FRESH_HOURS * SECONDS_PER_HOUR

\* C5: a cycle that boots less than 6 hours after a recorded and saved failure
\* of slot S, outside every tolerance window and with battery recommendation
\* normal (here: from a measured voltage, not from a failed read), finds S
\* pending and invokes the Transmitter.
C5_FailureRetriedLater ==
    \A S \in SlotIds :
        ( /\ pc \in {"notx", "transmit"}
          /\ is_mounted
          /\ battery_status.recommendation = "normal"
          /\ battery_status.voltage >= LOW_BATTERY_THRESHOLD
          /\ ~tx_time[1]
          /\ \E i \in DOMAIN state.failed_attempts :
                 state.failed_attempts[i].time_slot = S
          /\ S \in DOMAIN wallMem.fail
          /\ WallSeconds - wallMem.fail[S] < RETRY_HOURS * SECONDS_PER_HOUR )
        => /\ pc = "transmit"
           /\ \E i \in DOMAIN pending_transmissions :
                  pending_transmissions[i].time_slot = S

\* C6: once one save has completed, the state file or the backup file holds a
\* complete, parseable state record at every moment, power loss included.
C6_SnapshotSurvives ==
    maxPersisted > 0 => (stateFile.kind = "json" \/ backupFile.kind = "json")

\* C7: the persisted total_wake_cycles never decreases.
C7_WakeCyclesNeverDecrease ==
    stateFile.kind = "json" => json_load(stateFile.text).total_wake_cycles >= maxPersisted

\* C8: a boot with a mounted store (or on the emergency path) ends with the
\* persisted total_wake_cycles one larger than it was at boot.
C8_IncrementedOncePerBoot ==
    ( /\ pc = "done"
      /\ bootFile.kind = "json"
      /\ (is_mounted \/ Emergency) )
    => /\ stateFile.kind = "json"
       /\ json_load(stateFile.text).total_wake_cycles
              = json_load(bootFile.text).total_wake_cycles + 1

(***************************************************************************)
(* SpecRecord: any sequence of record_transmission_attempt calls on one    *)
(* state dict, starting from the default state.  The clock advances        *)
(* between calls.                                                          *)
(***************************************************************************)
InitRecord ==
    /\ state = default_state
    /\ mono = 0
    /\ calls = 0
    /\ successes = 0
    /\ streak = 0
    /\ hist = << >>
    /\ last = NoCall
    /\ pc = "off"
    /\ now = 0
    /\ stateFile = Absent
    /\ backupFile = Absent
    /\ LocalsIdle
    /\ cycles = 0
    /\ did = DidNothing
    /\ bootFile = Absent
    /\ maxPersisted = 0
    /\ wallMem = EmptyWall
    /\ wallFile = EmptyWall
    /\ SendIdle
    /\ FunctionsIdle
    /\ PendingIdle

RecordSuccess(S) ==
    /\ calls < MaxCalls
    /\ successes < MaxSuccesses
    /\ mono' = mono + 1
    /\ state' = record_transmission_attempt(state, S, TRUE, "", mono')
    /\ calls' = calls + 1
    /\ successes' = successes + 1
    /\ streak' = 0
    /\ hist' = hist
    /\ last' = [ op |-> "record", time_slot |-> S, success |-> TRUE,
                 timestamp |-> mono', before |-> state ]
    /\ UNCHANGED <<cycleVars, sendVars, pendingVars, functionVars>>

RecordFailure(S) ==
    /\ calls < MaxCalls
    /\ mono' = mono + 1
    /\ state' = record_transmission_attempt(state, S, FALSE, SEND_FAILURE, mono')
    /\ calls' = calls + 1
    /\ successes' = successes
    /\ streak' = streak + 1
    /\ hist' = Append(hist, AttemptRecord(S, mono', FALSE, SEND_FAILURE))
    /\ last' = [ op |-> "record", time_slot |-> S, success |-> FALSE,
                 timestamp |-> mono', before |-> state ]
    /\ UNCHANGED <<cycleVars, sendVars, pendingVars, functionVars>>

NextRecord ==
    \/ \E S \in SlotIds : RecordSuccess(S)
    \/ \E S \in SlotIds : RecordFailure(S)

SpecRecord == InitRecord /\ [][NextRecord]_vars

\* C9: recording a success for slot S leaves no failure record of S and sets
\* last_successful_transmissions[S] to the recording time.
C9_SuccessPurgesFailures ==
    (last.op = "record" /\ last.success) =>
        /\ \A i \in DOMAIN state.failed_attempts :
               state.failed_attempts[i].time_slot # last.time_slot
        /\ last.time_slot \in DOMAIN state.last_successful_transmissions
        /\ state.last_successful_transmissions[last.time_slot] = last.timestamp

\* a success was recorded for a slot that had failure records, next to
\* failure records of the other slot
C9_Witness ==
    /\ last.op = "record" /\ last.success
    /\ \E i \in DOMAIN last.before.failed_attempts :
           last.before.failed_attempts[i].time_slot = last.time_slot
    /\ state.failed_attempts # << >>

\* C10: failed_attempts never holds more than 10 records, and after more than
\* 10 consecutive failure recordings it is exactly the 10 most recently
\* recorded failures, in recording order.
C10_BoundedHistory ==
    /\ Len(state.failed_attempts) <= MAX_FAILED_ATTEMPTS
    /\ streak > MAX_FAILED_ATTEMPTS =>
           state.failed_attempts = PyTail(hist, MAX_FAILED_ATTEMPTS)

\* 11 or more consecutive failures were recorded, for both slots
C10_Witness ==
    /\ streak > MAX_FAILED_ATTEMPTS
    /\ Len(state.failed_attempts) = MAX_FAILED_ATTEMPTS
    /\ \E i, j \in DOMAIN state.failed_attempts :
           state.failed_attempts[i].time_slot # state.failed_attempts[j].time_slot

(***************************************************************************)
(* SpecSend: one call of perform_transmission (main.py:179-226), which     *)
(* calls send_data_reading and through it send_message, or one direct call *)
(* of send_message.  The clock mono starts at 0 with the wake cycle.       *)
(***************************************************************************)
InitSend ==
    /\ state = NoState
    /\ mono = 0
    /\ RecordIdle
    /\ pc = "off"
    /\ now = 0
    /\ stateFile = Absent
    /\ backupFile = Absent
    /\ LocalsIdle
    /\ cycles = 0
    /\ did = DidNothing
    /\ bootFile = Absent
    /\ maxPersisted = 0
    /\ wallMem = EmptyWall
    /\ wallFile = EmptyWall
    /\ SendIdle
    /\ FunctionsIdle
    /\ PendingIdle

FailedResult(error) == [ success |-> FALSE, attempts |-> 0, error |-> error ]

\* send_message up to its loop, satellite.py:110-117
EnterSendMessage(msg, n, who) ==
    /\ caller' = who
    /\ message' = msg
    /\ max_attempts' = n
    /\ loop_attempt' = 0
    /\ last_error' = ""
    /\ IF msg = ""
       THEN /\ send_return' = <<FALSE, 0, EMPTY_MESSAGE>>
            /\ send_pc' = "returned"
       ELSE /\ send_return' = send_return
            /\ send_pc' = "loop"

M_NeverSleeps(sat, pin) == pin

\* main.py:223-226, "finally: if satellite: satellite.sleep()", and
\* satellite.py:63-70: the sleep pin after it
FinallySleep(sat, pin) == IF sat THEN "asleep" ELSE pin

\* perform_transmission up to the call of send_message, main.py:183-202 and
\* satellite.py:179-192; main() passes satellite = None (main.py:42)
PerformTransmission(how) ==
    /\ send_pc = "idle"
    /\ mono' = mono + IF how = "construct_fails" THEN 0 ELSE MODEM_WAKE_SECONDS
    /\ sendLog' = sendLog
    /\ modem' = (how # "construct_fails")
    /\ CASE how = "construct_fails" ->     \* SatelliteModem() raises
              /\ perform_result' = FailedResult("Exception during transmission")
              /\ link' = FinallySleep(modem', link)
              /\ send_pc' = "done"
              /\ UNCHANGED <<caller, message, max_attempts, is_initialized,
                             loop_attempt, last_error, send_return>>
         [] how = "init_fails" ->
              /\ perform_result' = FailedResult(INIT_FAILURE)
              /\ link' = FinallySleep(modem', "awake")
              /\ send_pc' = "done"
              /\ UNCHANGED <<caller, message, max_attempts, is_initialized,
                             loop_attempt, last_error, send_return>>
         [] how = "raises" ->      \* the sensor or the RTC read raises
              /\ perform_result' = FailedResult("Exception during transmission")
              /\ is_initialized' = TRUE
              /\ link' = FinallySleep(modem', "awake")
              /\ send_pc' = "done"
              /\ UNCHANGED <<caller, message, max_attempts, loop_attempt,
                             last_error, send_return>>
         [] how = "sends" ->
              /\ is_initialized' = TRUE
              /\ link' = "awake"
              /\ EnterSendMessage(DATA_MESSAGE, MAX_RETRY_ATTEMPTS, "perform")
              /\ perform_result' = perform_result
    /\ UNCHANGED <<state, recordVars, cycleVars, pendingVars, functionVars>>

\* a direct call satellite.send_message(msg, n)
CallSendMessage(msg, n, inited) ==
    /\ send_pc = "idle"
    /\ is_initialized' = inited
    /\ modem' = TRUE
    /\ link' = "awake"      \* SatelliteModem.__init__, satellite.py:25
    /\ EnterSendMessage(msg, n, "direct")
    /\ UNCHANGED <<state, mono, recordVars, cycleVars, pendingVars, functionVars, perform_result, sendLog>>

\* one pass of the loop of send_message, satellite.py:119-163.  init_ok: what
\* initialize() answers if it is called; quality: what get_signal_quality()
\* answers; reply: what rockblock.text_message does
Attempt(init_ok, quality, reply) ==
    LET k == loop_attempt
        started == Append(sendLog, Event("attempt", k, k + 1, mono))
        init_runs == ~is_initialized
        t1 == IF init_runs THEN mono + MODEM_WAKE_SECONDS ELSE mono
    IN
    /\ send_pc = "loop"
    /\ LoopContinues(loop_attempt, max_attempts)
    /\ IF init_runs /\ ~init_ok
       THEN \* continue
            /\ last_error' = MODEM_INIT_ERROR
            /\ sendLog' = Append(started, Event("init_fail", k, 0, mono))
            /\ mono' = t1
            /\ loop_attempt' = k + 1
            /\ UNCHANGED <<is_initialized, send_return, send_pc>>
       ELSE IF quality < 1
       THEN \* time.sleep(30); continue
            /\ is_initialized' = TRUE
            /\ last_error' = POOR_SIGNAL_ERROR
            /\ sendLog' = started \o << Event("poor_signal", k, quality, t1),
                                        Event("signal_wait", k,
                                              POOR_SIGNAL_SECONDS, t1) >>
            /\ mono' = t1 + POOR_SIGNAL_SECONDS
            /\ loop_attempt' = k + 1
            /\ UNCHANGED <<send_return, send_pc>>
       ELSE IF Confirmed(reply)
       THEN \* return True, attempt + 1, ""
            /\ is_initialized' = TRUE
            /\ sendLog' = Append(started, Event("send", k, ReplyCode(reply), t1))
            /\ mono' = t1
            /\ send_return' = <<TRUE, k + 1, "">>
            /\ send_pc' = "returned"
            /\ UNCHANGED <<last_error, loop_attempt>>
       ELSE \* the send failed or raised: backoff unless this was the last pass
            LET sent == Append(started, Event("send", k, ReplyCode(reply), t1))
                seconds == BackoffMinutes(k) * 60
            IN
            /\ is_initialized' = TRUE
            /\ last_error' = IF reply = "raises" THEN SEND_EXCEPTION
                             ELSE SEND_FAILURE
            /\ IF BackoffDue(k, max_attempts)
               THEN /\ sendLog' = Append(sent, Event("backoff", k, seconds, t1))
                    /\ mono' = t1 + seconds
               ELSE /\ sendLog' = sent
                    /\ mono' = t1
            /\ loop_attempt' = k + 1
            /\ UNCHANGED <<send_return, send_pc>>
    /\ UNCHANGED <<state, recordVars, cycleVars, pendingVars, functionVars, caller, message, max_attempts,
                   perform_result, modem, link>>

\* satellite.py:166, return False, max_attempts, last_error
AllAttemptsFailed ==
    /\ send_pc = "loop"
    /\ ~LoopContinues(loop_attempt, max_attempts)
    /\ send_return' = <<FALSE, max_attempts, last_error>>
    /\ send_pc' = "returned"
    /\ UNCHANGED <<state, mono, recordVars, cycleVars, pendingVars, functionVars, caller, message,
                   max_attempts, is_initialized, loop_attempt, last_error,
                   perform_result, modem, link, sendLog>>

\* satellite.py:192-201, what send_data_reading makes of send_message's answer
send_data_reading(sent) ==
    [ success |-> sent[1], attempts |-> sent[2], error |-> sent[3] ]

\* send_data_reading returns and perform_transmission returns its result,
\* main.py:202-212
ReturnResult ==
    /\ send_pc = "returned"
    /\ caller = "perform"
    /\ perform_result' = send_data_reading(send_return)
    /\ link' = FinallySleep(modem, link)
    /\ send_pc' = "done"
    /\ UNCHANGED <<state, mono, recordVars, cycleVars, pendingVars, functionVars, caller, message,
                   max_attempts, is_initialized, loop_attempt, last_error,
                   send_return, sendLog, modem>>

NextSend ==
    \/ \E how \in {"construct_fails", "init_fails", "raises", "sends"} :
           PerformTransmission(how)
    \/ \E msg \in {"", DATA_MESSAGE}, n \in 0..MaxAttemptsBound,
          inited \in BOOLEAN : CallSendMessage(msg, n, inited)
    \/ \E init_ok \in BOOLEAN, quality \in SignalQualities, reply \in Replies :
           Attempt(init_ok, quality, reply)
    \/ AllAttemptsFailed
    \/ ReturnResult

SpecSend == InitSend /\ [][NextSend]_vars

\* the entries of sendLog of one kind
LogOf(ev) == SelectSeq(sendLog, LAMBDA e : e.ev = ev)

\* send_message has returned
SendReturned == send_pc \in {"returned", "done"} /\ send_return # NoReturn

\* every pass of the loop so far reached text_message and it answered False
EverySendReportedFailure ==
    /\ Len(LogOf("attempt")) = Len(LogOf("send"))
    /\ \A i \in DOMAIN LogOf("send") : LogOf("send")[i].n = 0

\* C11: no call of send_message calls the link's send more than max_attempts
\* times; with max_attempts = 3 and a link whose send answers failure in
\* every attempt, send_message returns (False, 3, send failure) after exactly
\* 3 sends.
C11_RetryExhaustion ==
    /\ Len(LogOf("send")) <= max_attempts
    /\ ( /\ SendReturned
         /\ message # ""
         /\ max_attempts = 3
         /\ EverySendReportedFailure )
       => /\ send_return = <<FALSE, 3, SEND_FAILURE>>
          /\ Len(LogOf("send")) = 3

\* perform_transmission came back from three sends that all reported failure
C11_Witness ==
    /\ send_pc = "done"
    /\ caller = "perform"
    /\ max_attempts = 3
    /\ EverySendReportedFailure
    /\ Len(LogOf("send")) = 3
    /\ perform_result.attempts = 3
    /\ ~perform_result.success

\* every pass of the loop so far reached text_message and it did not confirm
EverySendFailed ==
    /\ Len(LogOf("attempt")) = Len(LogOf("send"))
    /\ \A i \in DOMAIN LogOf("send") : LogOf("send")[i].n # 1

\* C12: 3 attempts whose sends all fail make exactly 2 backoff waits, of 5
\* then 15 minutes, and none after the third attempt; the wait after an
\* attempt with index beyond the schedule is the last entry, 30 minutes.
C12_BackoffSchedule ==
    /\ ( /\ SendReturned
         /\ max_attempts = 3
         /\ message # ""
         /\ EverySendFailed )
       => /\ Len(LogOf("backoff")) = 2
          /\ LogOf("backoff")[1].n = 5 * 60
          /\ LogOf("backoff")[2].n = 15 * 60
          /\ sendLog[Len(sendLog)].ev # "backoff"
    /\ \A i \in DOMAIN sendLog :
           (sendLog[i].ev = "backoff" /\ sendLog[i].k >= 3) =>
               sendLog[i].n = 30 * 60

\* three failed sends, two waits, the call returned
C12_Witness ==
    /\ SendReturned
    /\ max_attempts = 3
    /\ EverySendFailed
    /\ Len(LogOf("send")) = 3
    /\ Len(LogOf("backoff")) = 2
    /\ mono >= (5 + 15) * 60

\* C13: every attempt after the first starts right after the backoff wait
\* scheduled for the attempt before it, whatever made that attempt fail.
C13_BackoffBetweenAttempts ==
    \A i \in DOMAIN sendLog :
        (sendLog[i].ev = "attempt" /\ sendLog[i].k >= 1) =>
            /\ i > 1
            /\ sendLog[i - 1].ev = "backoff"
            /\ sendLog[i - 1].k = sendLog[i].k - 1
            /\ sendLog[i - 1].n = BackoffMinutes(sendLog[i].k - 1) * 60

\* the positions of sendLog where text_message confirmed the send
ConfirmedSends ==
    { i \in DOMAIN sendLog : sendLog[i].ev = "send" /\ sendLog[i].n = 1 }

\* C14: send_message returns success with count k exactly when attempt k is
\* the first whose send was confirmed; nothing is sent after a confirmed send;
\* send_message, send_data_reading and perform_transmission report success
\* only after a confirmed send.
C14_SuccessOnlyIfConfirmed ==
    /\ \A i \in ConfirmedSends : i = Len(sendLog) /\ SendReturned
    /\ SendReturned =>
           /\ send_return[1] = (ConfirmedSends # {})
           /\ send_return[1] => send_return[2] = sendLog[Len(sendLog)].k + 1
    /\ (perform_result # NoResult /\ perform_result.success) =>
           /\ ConfirmedSends # {}
           /\ perform_result.attempts = sendLog[Len(sendLog)].k + 1

\* perform_transmission reports success at the second attempt
C14_Witness ==
    /\ send_pc = "done"
    /\ perform_result.success
    /\ perform_result.attempts = 2
    /\ Len(LogOf("send")) = 2

MAX_WAKE_DURATION == 300     \* PowerManager.max_wake_duration, seconds

\* C15: no backoff wait and no retry starts once the wake time has passed the
\* maximum wake duration.
C15_TimeBudgetChecked ==
    \A i \in DOMAIN sendLog :
        (sendLog[i].ev = "backoff" \/ (sendLog[i].ev = "attempt" /\ sendLog[i].k >= 1))
            => sendLog[i].at <= MAX_WAKE_DURATION

(***************************************************************************)
(* SpecPending: the state dict between recordings, waits and reboots, and  *)
(* get_pending_transmissions called on it.  A reboot restarts              *)
(* time.monotonic() at 0 and brings the state dict back as it was saved.   *)
(* wallState is the same dict with the wall-clock time of every recording  *)
(* in place of its time.monotonic() timestamp.                             *)
(***************************************************************************)
MaxTimeSteps == 3       \* waits and reboots in a behaviour
MaxPendRecords == 2     \* recordings in a behaviour

PendStartTimes == { 4 * 60 + 55 }     \* RTC local time at the first boot
PendMinutes == { 60, 8 * 60 }         \* length of a wait, time between boots

InitPending ==
    /\ state = default_state
    /\ mono = 0
    /\ RecordIdle
    /\ pc = "off"
    /\ now \in PendStartTimes
    /\ stateFile = Absent
    /\ backupFile = Absent
    /\ LocalsIdle
    /\ cycles = 0
    /\ did = DidNothing
    /\ bootFile = Absent
    /\ maxPersisted = 0
    /\ wallMem = EmptyWall
    /\ wallFile = EmptyWall
    /\ SendIdle
    /\ FunctionsIdle
    /\ pendingLog = << >>
    /\ stateAtCall = default_state
    /\ wallState = default_state
    /\ timeSteps = 0
    /\ pendRecords = 0
    /\ pendTx = NoTx

\* main.py:118-123, record_transmission_attempt for slot S
PendRecord(S, success) ==
    /\ pendRecords < MaxPendRecords
    /\ state' = record_transmission_attempt(state, S, success,
                    IF success THEN "" ELSE SEND_FAILURE, mono)
    /\ wallState' = record_transmission_attempt(wallState, S, success,
                        IF success THEN "" ELSE SEND_FAILURE, WallSeconds)
    /\ pendRecords' = pendRecords + 1
    /\ pendingLog' = << >>
    /\ stateAtCall' = state'
    /\ pendTx' = NoTx
    /\ UNCHANGED <<mono, recordVars, functionVars, cycleVars, sendVars, timeSteps>>

\* the program keeps running for some minutes
PendWait(minutes) ==
    /\ timeSteps < MaxTimeSteps
    /\ mono' = mono + minutes * 60
    /\ timeSteps' = timeSteps + 1
    /\ pendingLog' = << >>
    /\ pendTx' = NoTx
    /\ UNCHANGED <<state, recordVars, functionVars, cycleVars, sendVars, stateAtCall,
                   wallState, pendRecords>>

\* power off after a save, and the next boot: save_state and load_state
PendReboot(gap) ==
    /\ timeSteps < MaxTimeSteps
    /\ gap * 60 > mono
    /\ mono' = 0
    /\ now' = now + gap
    /\ timeSteps' = timeSteps + 1
    /\ pendingLog' = << >>
    /\ pendTx' = NoTx
    /\ UNCHANGED <<state, recordVars, functionVars, diskVars, pc, localVars, historyVars,
                   sendVars, stateAtCall, wallState, pendRecords>>

\* the local time of day in minutes
MinuteOfDay == (WallSeconds \div 60) % MINUTES_PER_DAY

\* main.py:88, get_pending_transmissions(state, time_mgr)
PendGet ==
    /\ Len(pendingLog) < 2
    /\ pendingLog' = Append(pendingLog,
           get_pending_transmissions(state, mono,
               is_transmission_time(MinuteOfDay, TOLERANCE_MINUTES)[1]))
    /\ state' = [state EXCEPT !.last_successful_transmissions = ReadSlots(1, @)]
    /\ stateAtCall' = IF pendingLog = << >> THEN state ELSE stateAtCall
    /\ pendTx' = NoTx
    /\ UNCHANGED <<mono, recordVars, functionVars, cycleVars, sendVars, wallState,
                   timeSteps, pendRecords>>

\* main.py:87-123 with the store mounted and the battery normal: the
\* transmission branch after the get_pending_transmissions call of line 88
PendTransmit(result) ==
    LET is_tx == is_transmission_time(MinuteOfDay, TOLERANCE_MINUTES)
        pending == pendingLog[Len(pendingLog)]
        at == mono + TransmissionSeconds(result)
    IN
    /\ pendingLog # << >>
    /\ pendRecords < MaxPendRecords
    /\ ShouldTransmit(is_tx[1], pending)
    /\ mono' = at
    /\ IF is_tx[2] # NoSlot
       THEN /\ state' = record_transmission_attempt(state, SlotStr(is_tx[2]),
                            result.success, result.error, at)
            /\ wallState' = record_transmission_attempt(wallState,
                                SlotStr(is_tx[2]), result.success,
                                result.error, now * 60 + at)
       ELSE UNCHANGED <<state, wallState>>
    /\ pendTx' = [ called |-> TRUE, tx_slot |-> is_tx[2], pending |-> pending,
                   result |-> result, before |-> state, at |-> at ]
    /\ pendRecords' = pendRecords + 1
    /\ pendingLog' = << >>
    /\ stateAtCall' = state'
    /\ UNCHANGED <<recordVars, functionVars, cycleVars, sendVars, timeSteps>>

NextPending ==
    \/ \E S \in SlotIds, success \in BOOLEAN : PendRecord(S, success)
    \/ \E minutes \in PendMinutes : PendWait(minutes)
    \/ \E gap \in PendMinutes : PendReboot(gap)
    \/ PendGet
    \/ \E result \in TransmissionResults : PendTransmit(result)

SpecPending == InitPending /\ [][NextPending]_vars

\* get_pending_transmissions has been called in the present situation
PendingCalled == pendingLog # << >>

\* what the latest call returned
PendingResult == pendingLog[Len(pendingLog)]

PendingSlots == { PendingResult[j].time_slot : j \in DOMAIN PendingResult }

\* the local time of day is within the tolerance of configured time i
InWindow(i) == MinutesDiff(MinuteOfDay, TRANSMISSION_TIMES[i]) <= TOLERANCE_MINUTES

\* the wall-clock second at which the running program booted
BootSeconds == now * 60

\* the positions of the failure records of slot S made less than 6 hours
\* before now by the wall clock
WallRecentFailures(S) ==
    { j \in DOMAIN wallState.failed_attempts :
        /\ wallState.failed_attempts[j].time_slot = S
        /\ WallSeconds - wallState.failed_attempts[j].timestamp
               < RETRY_HOURS * SECONDS_PER_HOUR }

\* slot S has a success recorded less than 12 hours before now by the wall clock
WallFresh(S) ==
    /\ S \in DOMAIN wallState.last_successful_transmissions
    /\ WallSeconds - wallState.last_successful_transmissions[S]
           < FRESH_HOURS * SECONDS_PER_HOUR

\* C16: a slot whose last success was recorded in an earlier wake cycle less
\* than 12 hours before now is not pending; one whose last success was
\* recorded in an earlier wake cycle more than 12 hours before now is pending
\* when it has a recent failure or is within the tolerance window.  (Stated
\* for calls made within the first hour after boot.)
C16_FreshnessWindow ==
    \A i \in DOMAIN TRANSMISSION_TIMES :
        LET S == SlotStr(TRANSMISSION_TIMES[i]) IN
        ( /\ PendingCalled
          /\ mono < SECONDS_PER_HOUR
          /\ S \in DOMAIN wallState.last_successful_transmissions
          /\ wallState.last_successful_transmissions[S] < BootSeconds )
        => /\ WallFresh(S) => S \notin PendingSlots
           /\ ( /\ WallSeconds - wallState.last_successful_transmissions[S]
                       > FRESH_HOURS * SECONDS_PER_HOUR
                /\ (WallRecentFailures(S) # {} \/ InWindow(i)) )
              => S \in PendingSlots

\* C17: for a slot without a success in the last 12 hours, whose failure
\* records were made in earlier wake cycles: records less than 6 hours old
\* make it pending, with retry_count their number and last_attempt the latest
\* of them; older records do not count.
C17_RetryWindow ==
    \A S \in SlotIds :
        LET recent == WallRecentFailures(S) IN
        ( /\ PendingCalled
          /\ ~WallFresh(S)
          /\ \A j \in DOMAIN wallState.failed_attempts :
                 wallState.failed_attempts[j].time_slot = S =>
                     wallState.failed_attempts[j].timestamp < BootSeconds )
        => /\ recent # {} =>
                 \E e \in DOMAIN PendingResult :
                     /\ PendingResult[e].time_slot = S
                     /\ PendingResult[e].last_attempt =
                            state.failed_attempts[
                                CHOOSE j \in recent : \A h \in recent : h <= j]
           /\ \A e \in DOMAIN PendingResult :
                  PendingResult[e].time_slot = S =>
                      PendingResult[e].retry_count = Cardinality(recent)

\* C18: a slot is newly pending (retry_count 0) only if it is itself within
\* the tolerance window; a slot with no recent success, no recent failure and
\* outside its window is not pending.
C18_NewOnlyInOwnWindow ==
    \A i \in DOMAIN TRANSMISSION_TIMES :
        LET S == SlotStr(TRANSMISSION_TIMES[i]) IN
        PendingCalled =>
            /\ \A e \in DOMAIN PendingResult :
                   (PendingResult[e].time_slot = S
                        /\ PendingResult[e].retry_count = 0) => InWindow(i)
            /\ (~WallFresh(S) /\ WallRecentFailures(S) = {} /\ ~InWindow(i))
                   => S \notin PendingSlots

\* C19: on a state with no success and no failure record of slot S, at a time
\* within the tolerance window of S, S is returned as newly pending with
\* retry_count 0.
C19_FirstBootPending ==
    \A i \in DOMAIN TRANSMISSION_TIMES :
        LET S == SlotStr(TRANSMISSION_TIMES[i]) IN
        ( /\ PendingCalled
          /\ S \notin DOMAIN state.last_successful_transmissions
          /\ \A j \in DOMAIN state.failed_attempts :
                 state.failed_attempts[j].time_slot # S
          /\ InWindow(i) )
        => \E e \in DOMAIN PendingResult :
               /\ PendingResult[e].time_slot = S
               /\ PendingResult[e].retry_count = 0
               /\ PendingResult[e].last_attempt = NoAttempt

TxSlots ==
    (IF pendTx.tx_slot # NoSlot THEN {SlotStr(pendTx.tx_slot)} ELSE {})
    \cup { pendTx.pending[j].time_slot : j \in DOMAIN pendTx.pending }

\* the state dict holds the outcome of the transmission of pendTx
OutcomeFolded ==
    IF pendTx.result.success
    THEN \E S \in TxSlots :
            /\ DictGet(state.last_successful_transmissions, S, NoTime) = pendTx.at
            /\ PurgeSlot(state.failed_attempts, S) = state.failed_attempts
    ELSE /\ Len(state.failed_attempts)
                = Len(pendTx.before.failed_attempts) + 1
         /\ state.failed_attempts[Len(state.failed_attempts)].timestamp
                = pendTx.at
         /\ state.failed_attempts[Len(state.failed_attempts)].time_slot
                \in TxSlots

\* C22: whenever the transmitter has been invoked with the store mounted,
\* its outcome is in the state dict that is saved next (a success sets the
\* slot's last-success time and purges the slot's failures, a failure
\* appends one attempt record), also when only a pending retry outside
\* every window triggered it.
C22_OutcomeRecorded == pendTx.called => OutcomeFolded

\* C22, the case of a window: the outcome is recorded under the slot of the
\* window
C22_RecordedInWindow ==
    (pendTx.called /\ pendTx.tx_slot # NoSlot) => OutcomeFolded

C22_WindowWitness ==
    /\ pendTx.called
    /\ pendTx.tx_slot # NoSlot
    /\ ~pendTx.result.success
    /\ state # pendTx.before

(* The wake cycle again: the branch taken and what it writes.              *)
(***************************************************************************)
\* the positions of main() after the transmission branch, main.py:104-177
AfterDecision ==
    {"txlog", "save", "save_backup", "save_open", "save_dump", "diag",
     "except", "finally", "done"}

\* the battery policy forbids a transmission
PolicyForbids ==
    battery_status.recommendation \in {"conserve_power", "emergency_shutdown"}

\* a transmission is due: is_tx_time or a pending entry
TransmissionDue == tx_time[1] \/ Len(pending_transmissions) > 0

PastSave == pc \in {"diag", "finally", "done"} /\ ~Emergency /\ is_mounted

\* the state dict holds the outcome of the transmission of this cycle under
\* the slot of its window
AttemptInState ==
    LET S == SlotStr(tx_time[2])
        n == Len(state.failed_attempts) IN
    IF transmission_result.success
    THEN DictGet(state.last_successful_transmissions, S, NoTime) = mono
    ELSE /\ n >= 1
         /\ state.failed_attempts[n]
                = AttemptRecord(S, mono, FALSE, transmission_result.error)

\* save_state was called once, with the state dict as it is now: the
\* counter one above the loaded one, the attempt of the cycle recorded
SavedUpdatedState ==
    /\ did.save_call = 1
    /\ did.save_arg = state
    /\ state.total_wake_cycles = load_state(bootFile).total_wake_cycles + 1
    /\ (did.tx = 1 /\ tx_time[2] # NoSlot) => AttemptInState

StorageSteps == {"storage", "load", "save", "save_backup", "save_open", "save_dump"}

\* the store did not mount, or a read or a write of the cycle has failed
StorageFailed ==
    /\ storage_mgr
    /\ \/ ~is_mounted
       \/ did.log_fail > 0
       \/ did.load = 1 /\ bootFile = Truncated
       \/ did.save_call = 1 /\ did.save = 0 /\ pc \in {"diag", "finally", "done"}

C28_OneReadingRow ==
    (pc = "done" /\ ~Emergency /\ is_mounted /\ ~did.raised /\ did.log_fail = 0)
        => did.log = 1

\* C28 on the two branches that log: one row when the cycle transmitted,
\* one row when no transmission was due
C28_OneRowUnlessSkipped ==
    (pc = "done" /\ ~Emergency /\ is_mounted /\ ~did.raised /\ did.log_fail = 0
        /\ ~(TransmissionDue /\ PolicyForbids))
        => did.log = 1

C28_SkipWitness ==
    /\ pc = "done"
    /\ is_mounted
    /\ ~did.raised
    /\ TransmissionDue /\ PolicyForbids
    /\ did.log = 0 /\ did.log_fail = 0
    /\ did.err = <<"POWER">>


MaxStoreOps == 3

\* state dicts passed to save_state: the default record, the dict main()
\* builds without a store, a record after a failure and a success, and a
\* record with one default field and one field the defaults do not have
StateRecords ==
    { default_state,
      DictPut(IncrementWakeCycles(EmptyMap), "last_wake_time", 7),
      record_transmission_attempt(
          record_transmission_attempt(
              IncrementWakeCycles(default_state), "05:00", FALSE, SEND_FAILURE, 9),
          "17:00", TRUE, "", 12),
      [ total_wake_cycles |-> 3, firmware |-> 2 ] }

\* what the state file holds when the first call is made
StoreContents == { Absent, Truncated, Scalar, Json(default_state) }

\* what a fault or another writer leaves in place of a saved state file
Corruptions == { Absent, Truncated, Scalar }

InitStore ==
    /\ state = NoState
    /\ mono = 0
    /\ RecordIdle
    /\ pc = "off"
    /\ now = 0
    /\ stateFile \in StoreContents
    /\ backupFile = Absent
    /\ LocalsIdle
    /\ cycles = 0
    /\ did = DidNothing
    /\ bootFile = Absent
    /\ maxPersisted = 0
    /\ wallMem = EmptyWall
    /\ wallFile = EmptyWall
    /\ SendIdle
    /\ PendingIdle
    /\ FunctionsIdle

\* save_state(s), storage_manager.py:101-128; mounts is what initialize()
\* answers when it is called, fault the statement that raises
StoreSave(s, mounts, fault) ==
    /\ storeOps < MaxStoreOps
    /\ storeOps' = storeOps + 1
    /\ state' = s
    /\ load_result' = NoLoad
    /\ IF ~is_mounted /\ ~mounts
       THEN /\ saved' = [ called |-> TRUE, s |-> s, returned |-> FALSE ]
            /\ clean' = FALSE
            /\ UNCHANGED <<is_mounted, stateFile, backupFile>>
       ELSE /\ is_mounted' = TRUE
            /\ backupFile' = IF stateFile = Absent THEN backupFile ELSE stateFile
            /\ stateFile' = CASE fault = "none" -> Json(s)
                              [] fault = "open" -> stateFile
                              [] fault = "dump" -> Truncated
            /\ saved' = [ called |-> TRUE, s |-> s, returned |-> fault = "none" ]
            /\ clean' = (fault = "none")
    /\ UNCHANGED <<mono, recordVars, now, pc, power_mgr, battery_status,
                   storage_mgr, tx_time, pending_transmissions,
                   transmission_result, backup_data, historyVars, sendVars,
                   pendingVars, logVars, msgVars, batteryVars, aliasVars>>

\* load_state(), storage_manager.py:78-99
StoreLoad(mounts) ==
    /\ storeOps < MaxStoreOps
    /\ storeOps' = storeOps + 1
    /\ is_mounted' = (is_mounted \/ mounts)
    /\ load_result' = [ called |-> TRUE, mounted |-> is_mounted',
                        file |-> stateFile ]
                      @@ LoadOutcome(is_mounted', stateFile)
    /\ UNCHANGED <<state, mono, recordVars, diskVars, now, pc, power_mgr,
                   battery_status, storage_mgr, tx_time,
                   pending_transmissions, transmission_result, backup_data,
                   historyVars, sendVars, pendingVars, logVars, msgVars, batteryVars, aliasVars, saved,
                   clean>>

\* the state file is removed, cut short or replaced
StoreCorrupt(content) ==
    /\ storeOps < MaxStoreOps
    /\ storeOps' = storeOps + 1
    /\ stateFile' = content
    /\ clean' = FALSE
    /\ load_result' = NoLoad
    /\ UNCHANGED <<state, mono, recordVars, backupFile, now, pc, localVars,
                   historyVars, sendVars, pendingVars, logVars, msgVars, batteryVars, aliasVars, saved>>

NextStore ==
    \/ \E s \in StateRecords, mounts \in BOOLEAN, fault \in {"none", "open", "dump"} :
           StoreSave(s, mounts, fault)
    \/ \E mounts \in BOOLEAN : StoreLoad(mounts)
    \/ \E content \in Corruptions : StoreCorrupt(content)

SpecStore == InitStore /\ [][NextStore]_vars

\* load_state found no state record to read: the store did not mount, the
\* file is missing, or its content is not a JSON object
NothingToLoad == ~load_result.mounted \/ load_result.file.kind # "json"

\* C25: load_state never raises to its caller; when the store cannot be
\* mounted, or the state file is missing, unreadable or not a valid state
\* record, it returns the default record.
C25_LoadNeverRaises ==
    load_result.called =>
        /\ ~load_result.raised
        /\ NothingToLoad => load_result.value = default_state

\* C25 for the failures load_state catches: an unmounted store, a missing
\* file and a file that is not complete JSON give the default record
C25_DefaultOnCaughtFailure ==
    (load_result.called /\ NothingToLoad /\ load_result.file.kind # "scalar") =>
        /\ ~load_result.raised
        /\ load_result.value = default_state

C25_CaughtWitness ==
    /\ load_result.called
    /\ load_result.mounted
    /\ load_result.file = Truncated
    /\ load_result.value = default_state

MaxLogCalls == 4

HEADER_WRITES == << "timestamp..battery_voltage,", "transmission_success..error\n" >>
ROW_WRITES == << "timestamp,depth,raw,", "battery,success,attempts,", "signal,error\n" >>

\* a log file that holds the given writes
LogText(writes) == [ kind |-> "text", writes |-> writes ]

\* the f.write calls of one log_sensor_reading, in order
LogWrites(file_exists) ==
    IF file_exists THEN ROW_WRITES ELSE HEADER_WRITES \o ROW_WRITES

InitLog ==
    /\ state = NoState
    /\ mono = 0
    /\ RecordIdle
    /\ pc = "off"
    /\ now = 0
    /\ stateFile = Absent
    /\ backupFile = Absent
    /\ LocalsIdle
    /\ cycles = 0
    /\ did = DidNothing
    /\ bootFile = Absent
    /\ maxPersisted = 0
    /\ wallMem = EmptyWall
    /\ wallFile = EmptyWall
    /\ SendIdle
    /\ PendingIdle
    /\ FunctionsIdle

\* log_sensor_reading fails before it has opened the log file for append:
\* initialize() answers False, or open(LOG_FILE, 'a') raises
LogFailsEarly(mounts) ==
    /\ logCalls < MaxLogCalls
    /\ logCalls' = logCalls + 1
    /\ is_mounted' = (is_mounted \/ mounts)
    /\ logReturn' = <<FALSE>>
    /\ UNCHANGED <<logFile, logOk, logPartial>>
    /\ UNCHANGED <<state, mono, recordVars, diskVars, now, pc, power_mgr,
                   battery_status, storage_mgr, tx_time,
                   pending_transmissions, transmission_result, backup_data,
                   historyVars, sendVars, pendingVars, storeVars, msgVars, batteryVars, aliasVars>>

\* log_sensor_reading on a store that is or gets mounted: it opens the file
\* for append and completes the first written of its writes; it returns
\* True when that is all of them
LogAppend(written) ==
    LET file_exists == logFile # Absent
        writes == LogWrites(file_exists)
        before == IF file_exists THEN logFile.writes ELSE << >>
    IN
    /\ logCalls < MaxLogCalls
    /\ written <= Len(writes)
    /\ logCalls' = logCalls + 1
    /\ is_mounted' = TRUE
    /\ logFile' = LogText(before \o SubSeq(writes, 1, written))
    /\ logReturn' = << written = Len(writes) >>
    /\ logOk' = IF written = Len(writes) THEN logOk + 1 ELSE logOk
    /\ logPartial' = (logPartial \/ written < Len(writes))
    /\ UNCHANGED <<state, mono, recordVars, diskVars, now, pc, power_mgr,
                   battery_status, storage_mgr, tx_time,
                   pending_transmissions, transmission_result, backup_data,
                   historyVars, sendVars, pendingVars, storeVars, msgVars, batteryVars, aliasVars>>

NextLog ==
    \/ \E mounts \in BOOLEAN : LogFailsEarly(mounts)
    \/ \E written \in 0..(Len(HEADER_WRITES) + Len(ROW_WRITES)) : LogAppend(written)

SpecLog == InitLog /\ [][NextLog]_vars

RECURSIVE Rows(_)
\* n data rows, write by write
Rows(n) == IF n = 0 THEN << >> ELSE ROW_WRITES \o Rows(n - 1)

\* the file is the header row followed by one data row for each call that
\* returned True
HeaderThenRows == logFile = LogText(HEADER_WRITES \o Rows(logOk))

\* C27: after any sequence of log_sensor_reading calls, successful or
\* failing, on a log file absent at first, the log holds the header row
\* exactly once, as its first row, and one data row after it for every call
\* that succeeded.
C27_HeaderOnceThenRows == logOk >= 1 => HeaderThenRows

\* C27 for the sequences in which every failing call fails before it has
\* opened the log file: the header once, then one row for each success
C27_HeaderOnceUnlessPartial == (logOk >= 1 /\ ~logPartial) => HeaderThenRows

C27_EarlyFailureWitness ==
    /\ logOk = 2
    /\ logCalls = 3
    /\ logReturn = <<TRUE>>
    /\ ~logPartial
    /\ HeaderThenRows

(***************************************************************************)
(* SpecMessage: send_message(message, 1) on an initialized modem with      *)
(* signal, for messages of every length around the limit.  A message is    *)
(* some two-byte characters followed by some one-byte characters; the      *)
(* marker "..." is three one-byte characters more.                         *)
(***************************************************************************)
MaxWide == 2          \* two-byte characters at the head of a message
MaxNarrow == 342      \* one-byte characters after them

MESSAGE_LIMIT == 340      \* if len(message.encode()) > 340
MESSAGE_KEPT == 337       \* message[:337]
MARKER == 3               \* len("...")

Text(wide, narrow, marker) == [ wide |-> wide, narrow |-> narrow, marker |-> marker ]

\* len(message)
Chars(m) == m.wide + m.narrow + m.marker

\* len(message.encode())
Bytes(m) == 2 * m.wide + m.narrow + m.marker

\* message[:n]: the first n characters
Slice(m, n) ==
    LET wide == Min(m.wide, n) IN
    Text(wide, Min(m.narrow, n - wide), 0)

\* satellite.py:113-115
Truncated340(m) ==
    IF Bytes(m) > MESSAGE_LIMIT
    THEN [ Slice(m, MESSAGE_KEPT) EXCEPT !.marker = MARKER ]
    ELSE m

InitMessage ==
    /\ state = NoState
    /\ mono = 0
    /\ RecordIdle
    /\ pc = "off"
    /\ now = 0
    /\ stateFile = Absent
    /\ backupFile = Absent
    /\ LocalsIdle
    /\ cycles = 0
    /\ did = DidNothing
    /\ bootFile = Absent
    /\ maxPersisted = 0
    /\ wallMem = EmptyWall
    /\ wallFile = EmptyWall
    /\ SendIdle
    /\ PendingIdle
    /\ StoreIdle
    /\ LogIdle
    /\ BatteryIdle
    /\ AliasIdle
    /\ msg_in \in { Text(wide, narrow, 0) : wide \in 0..MaxWide, narrow \in 0..MaxNarrow }
    /\ msg_handed = NoMessage
    /\ msg_return = NoReturn

\* send_message(message, 1), satellite.py:105-166: the empty message is
\* refused before the loop, any other is cut to the limit and handed to
\* rockblock.text_message, whose answer is reply
SendOneMessage(reply) ==
    /\ msg_return = NoReturn
    /\ IF Chars(msg_in) = 0
       THEN /\ msg_handed' = NoMessage
            /\ msg_return' = <<FALSE, 0, EMPTY_MESSAGE>>
       ELSE /\ msg_handed' = Truncated340(msg_in)
            /\ msg_return' = IF reply = "sent" THEN <<TRUE, 1, "">>
                             ELSE <<FALSE, 1, SEND_FAILURE>>
    /\ UNCHANGED <<state, mono, recordVars, cycleVars, sendVars, pendingVars,
                   storeVars, logVars, batteryVars, aliasVars, msg_in>>

NextMessage == \E reply \in {"sent", "failed"} : SendOneMessage(reply)

SpecMessage == InitMessage /\ [][NextMessage]_vars

\* what send_message did with its message is as the limit rule says
MessageRuleKept ==
    IF Chars(msg_in) = 0
    THEN msg_handed = NoMessage /\ msg_return = <<FALSE, 0, EMPTY_MESSAGE>>
    ELSE /\ msg_handed # NoMessage
         /\ Chars(msg_handed) > 0
         /\ Bytes(msg_handed) <= MESSAGE_LIMIT
         /\ IF Bytes(msg_in) > MESSAGE_LIMIT
            THEN /\ msg_handed.marker = MARKER
                 /\ Bytes(msg_handed) = MESSAGE_KEPT + MARKER
            ELSE msg_handed = msg_in

\* C29: every message send_message hands to the link is non-empty and at
\* most 340 bytes long: a longer message is cut to its first 337 bytes
\* followed by "...", and an empty message gives failure with 0 attempts
\* and no link call.
C29_WithinLimit == msg_return # NoReturn => MessageRuleKept

\* C29 for messages of one-byte characters only
C29_AsciiWithinLimit ==
    (msg_return # NoReturn /\ msg_in.wide = 0) => MessageRuleKept

C29_AsciiWitness ==
    /\ msg_return # NoReturn
    /\ msg_in = Text(0, MESSAGE_LIMIT + 1, 0)
    /\ msg_handed = Text(0, MESSAGE_KEPT, MARKER)

(***************************************************************************)
(* SpecBattery: check_battery_status called again and again on one         *)
(* PowerManager.  A call reads the monitor, or the read fails (no monitor, *)
(* or its value raises) and 0.0 V is reported with is_low_battery left as  *)
(* the last successful read set it.                                        *)
(***************************************************************************)
MaxBatteryCalls == 3

\* millivolts the monitor can read: around both thresholds
MonitorReadings == { 0, 2900, 2999, 3000, 3100, 3199, 3200, 3700 }

InitBattery ==
    /\ state = NoState
    /\ mono = 0
    /\ RecordIdle
    /\ pc = "off"
    /\ now = 0
    /\ stateFile = Absent
    /\ backupFile = Absent
    /\ LocalsIdle
    /\ cycles = 0
    /\ did = DidNothing
    /\ bootFile = Absent
    /\ maxPersisted = 0
    /\ wallMem = EmptyWall
    /\ wallFile = EmptyWall
    /\ SendIdle
    /\ PendingIdle
    /\ FunctionsIdle

\* one call of check_battery_status, power_manager.py:83-102
BatteryCheck(read_fails, reading) ==
    /\ Len(batteryLog) < MaxBatteryCalls
    /\ self_is_low' = read_battery_voltage(read_fails, reading, self_is_low)[2]
    /\ batteryLog' = Append(batteryLog,
                         check_battery_status(read_fails, reading, self_is_low))
    /\ UNCHANGED <<state, mono, recordVars, cycleVars, sendVars, pendingVars,
                   storeVars, logVars, msgVars, aliasVars>>

NextBattery ==
    \E read_fails \in BOOLEAN, reading \in MonitorReadings :
        BatteryCheck(read_fails, reading)

SpecBattery == InitBattery /\ [][NextBattery]_vars

\* C31: check_battery_status derives the recommendation from the reported
\* voltage alone: exactly 3.0 V gives emergency_shutdown, and two calls
\* that report the same voltage report the same recommendation, whatever
\* readings and read failures came before.
C31_VoltageAlone ==
    /\ \A i \in DOMAIN batteryLog :
           batteryLog[i].voltage = CRITICAL_VOLTAGE
               => batteryLog[i].recommendation = "emergency_shutdown"
    /\ \A i, j \in DOMAIN batteryLog :
           batteryLog[i].voltage = batteryLog[j].voltage
               => batteryLog[i].recommendation = batteryLog[j].recommendation

\* C31 for the calls whose read succeeded: the thresholds as the code has
\* them, 3.0 V itself being conserve_power
C31_ThresholdsOfSuccessfulReads ==
    \A i \in DOMAIN batteryLog :
        (batteryLog[i].voltage > 0 \/ batteryLog[i].is_low) =>
            batteryLog[i].recommendation =
                IF batteryLog[i].voltage < CRITICAL_VOLTAGE THEN "emergency_shutdown"
                ELSE IF batteryLog[i].voltage < LOW_BATTERY_THRESHOLD THEN "conserve_power"
                ELSE IF batteryLog[i].is_low THEN "monitor_closely"
                ELSE "normal"

\* C31, the history: the same reported 0.0 V, two recommendations
C31_SameVoltageTwoAnswers ==
    \E i, j \in DOMAIN batteryLog :
        /\ batteryLog[i].voltage = 0 /\ batteryLog[j].voltage = 0
        /\ batteryLog[i].recommendation = "normal"
        /\ batteryLog[j].recommendation = "emergency_shutdown"

(* perform_transmission and send_message again: SpecSend *)

\* perform_transmission has returned and its modem never initialized
NeverInitialized == send_pc = "done" /\ caller # "direct" /\ modem /\ ~is_initialized

\* C32: a failing link initialization counts as one exhausted attempt and
\* the send is retried up to MAX_RETRY_ATTEMPTS: a perform_transmission
\* whose link never initializes ends with success false, attempts 3 and a
\* link-initialization error.
C32_InitFailureCountsAttempts ==
    NeverInitialized =>
        /\ ~perform_result.success
        /\ perform_result.attempts = MAX_RETRY_ATTEMPTS
        /\ perform_result.error \in {INIT_FAILURE, MODEM_INIT_ERROR}

\* C32 inside send_message: called on a modem that never initializes, every
\* pass of the loop counts, and the return is failure with max_attempts
\* attempts and the initialization error
C32_DirectCallCountsInitFailures ==
    (send_pc = "returned" /\ caller = "direct" /\ ~is_initialized
        /\ message # "" /\ max_attempts >= 1)
        => send_return = <<FALSE, max_attempts, MODEM_INIT_ERROR>>

C32_DirectWitness ==
    /\ send_pc = "returned"
    /\ caller = "direct"
    /\ ~is_initialized
    /\ send_return = <<FALSE, MAX_RETRY_ATTEMPTS, MODEM_INIT_ERROR>>
    /\ Len(LogOf("init_fail")) = MAX_RETRY_ATTEMPTS

(* the wake cycle again: the emergency path and the exception handler *)

\* C33: on the emergency-shutdown path the cycle writes an error-log row of
\* category POWER_CRITICAL before it signals done.
C33_EmergencyLogged ==
    (Emergency /\ did.signal >= 1) =>
        \E i \in DOMAIN did.err : did.err[i] = "POWER_CRITICAL"

\* C33 as the code has it: the emergency path constructs no StorageManager
\* and writes no row to the error log
C33_EmergencyWritesNothing ==
    Emergency => (~storage_mgr /\ ~is_mounted /\ did.err = << >>)

C33_EmergencyWitness ==
    /\ pc = "done"
    /\ Emergency
    /\ did.signal >= 1
    /\ did.err = << >>

\* the rows of category SYSTEM the cycle has written to the error log
SystemRows == SelectSeq(did.err, LAMBDA category : category = "SYSTEM")

LogOfPass(ev, k) == SelectSeq(sendLog, LAMBDA e : e.ev = ev /\ e.k = k)

\* the passes of the loop that found the signal quality below 1
PoorSignalPasses ==
    { sendLog[i].k : i \in { j \in DOMAIN sendLog : sendLog[j].ev = "poor_signal" } }

\* a pass with poor signal made no send, and slept the cooldown
PoorSignalNoSend ==
    \A k \in PoorSignalPasses :
        /\ LogOfPass("send", k) = << >>
        /\ Len(LogOfPass("signal_wait", k)) = 1
        /\ LogOfPass("signal_wait", k)[1].n = POOR_SIGNAL_SECONDS
        /\ LogOfPass("poor_signal", k)[1].n < 1

\* a pass on an initialized modem with signal quality 1 or more made a send
GoodSignalSends ==
    \A i \in DOMAIN sendLog :
        sendLog[i].ev = "attempt" =>
            \/ LogOfPass("init_fail", sendLog[i].k) # << >>
            \/ LogOfPass("poor_signal", sendLog[i].k) # << >>
            \/ Len(LogOfPass("send", sendLog[i].k)) = 1

\* C35: in send_message an attempt whose signal quality is below 1 makes no
\* link send, counts as a failed attempt with the poor-signal error, and
\* waits the cooldown in addition to the scheduled backoff before the next
\* attempt; an attempt with quality exactly 1 goes on to send.
C35_CooldownAndBackoff ==
    /\ PoorSignalNoSend
    /\ GoodSignalSends
    /\ \A k \in PoorSignalPasses :
           BackoffDue(k, max_attempts) =>
               /\ Len(LogOfPass("backoff", k)) = 1
               /\ LogOfPass("backoff", k)[1].n = BackoffMinutes(k) * 60

\* C35 as the code has it: the cooldown is the only wait of a poor-signal
\* pass, no backoff follows it
C35_CooldownOnly ==
    /\ PoorSignalNoSend
    /\ GoodSignalSends
    /\ \A k \in PoorSignalPasses : LogOfPass("backoff", k) = << >>
    /\ (send_pc = "returned" /\ message # "" /\ max_attempts >= 1
            /\ (max_attempts - 1) \in PoorSignalPasses)
           => send_return = <<FALSE, max_attempts, POOR_SIGNAL_ERROR>>

C35_CooldownWitness ==
    /\ send_pc = "returned"
    /\ max_attempts = MAX_RETRY_ATTEMPTS
    /\ PoorSignalPasses = 0..(MAX_RETRY_ATTEMPTS - 1)
    /\ send_return = <<FALSE, MAX_RETRY_ATTEMPTS, POOR_SIGNAL_ERROR>>

\* send_message has returned failure after its last pass
LastPassFailed ==
    /\ send_pc = "returned"
    /\ message # ""
    /\ max_attempts >= 1
    /\ ~send_return[1]

\* C37: after the final attempt of send_message has failed it returns with
\* no further wait: neither a backoff nor a signal cooldown is slept after
\* attempt number max_attempts, whatever made that attempt fail.
C37_NoWaitAfterLastAttempt ==
    LastPassFailed =>
        /\ LogOfPass("backoff", max_attempts - 1) = << >>
        /\ LogOfPass("signal_wait", max_attempts - 1) = << >>

\* C37 for the backoff alone: none is slept after the last pass
C37_NoBackoffAfterLastAttempt ==
    LastPassFailed => LogOfPass("backoff", max_attempts - 1) = << >>

\* the last pass found poor signal and slept the cooldown before the return
C37_CooldownWitness ==
    /\ LastPassFailed
    /\ max_attempts = MAX_RETRY_ATTEMPTS
    /\ Len(LogOfPass("send", 0)) = 1
    /\ Len(LogOfPass("signal_wait", max_attempts - 1)) = 1
    /\ sendLog[Len(sendLog)].ev = "signal_wait"

(* record_transmission_attempt again: SpecRecord *)

\* the fields of the state dict that record_transmission_attempt leaves alone
UntouchedFields ==
    DOMAIN default_state \ {"failed_attempts", "last_successful_transmissions"}

\* C36: across any sequence of record_transmission_attempt calls a failure
\* record in failed_attempts is never modified, and leaves the list only by
\* a later success for its own slot or as the oldest entry when the list is
\* full: a success for slot S keeps every record of the other slots in
\* their order and the last-success time of the other slots; a failure
\* keeps the records before it, all of them or all but the oldest.
C36_FailureRecordsFramed ==
    last.op = "record" =>
        LET old == last.before
            S == last.time_slot
            kept == SubSeq(state.failed_attempts, 1, Len(state.failed_attempts) - 1)
        IN
        /\ \A field \in UntouchedFields : state[field] = old[field]
        /\ IF last.success
           THEN /\ state.failed_attempts =
                       SelectSeq(old.failed_attempts,
                                 LAMBDA attempt : attempt.time_slot # S)
                /\ DOMAIN state.last_successful_transmissions
                       = DOMAIN old.last_successful_transmissions \cup {S}
                /\ \A T \in DOMAIN old.last_successful_transmissions \ {S} :
                       state.last_successful_transmissions[T]
                           = old.last_successful_transmissions[T]
           ELSE /\ state.last_successful_transmissions
                       = old.last_successful_transmissions
                /\ Len(state.failed_attempts) >= 1
                /\ kept = IF Len(old.failed_attempts) < MAX_FAILED_ATTEMPTS
                          THEN old.failed_attempts
                          ELSE Tail(old.failed_attempts)

\* a success for one slot removed that slot's records and kept the other's
C36_Witness ==
    /\ last.op = "record"
    /\ last.success
    /\ Len(state.failed_attempts) >= 2
    /\ Len(last.before.failed_attempts) > Len(state.failed_attempts)
    /\ DOMAIN state.last_successful_transmissions = SlotIds

(***************************************************************************)
(* SpecAlias: load_state and record_transmission_attempt of one            *)
(* StorageManager.  dict.copy() is a shallow copy: the dict load_state     *)
(* returns holds, under every key the file did not supply, the very object *)
(* self.default_state holds.  append and item assignment change that       *)
(* object; an assignment to state["failed_attempts"] binds a new list.     *)
(***************************************************************************)
MaxAliasOps == 4

\* the keys of default_state whose value is a list or dict that
\* record_transmission_attempt changes
ContainerKeys == DOMAIN DefaultContainers

\* what the state file holds: the last one was written before the state had
\* its present keys
AliasContents ==
    { Absent, Truncated, Json(default_state), Json([ total_wake_cycles |-> 3 ]) }

InitAlias ==
    /\ state = NoState
    /\ mono = 0
    /\ RecordIdle
    /\ pc = "off"
    /\ now = 0
    /\ stateFile \in AliasContents
    /\ backupFile = Absent
    /\ LocalsIdle
    /\ cycles = 0
    /\ did = DidNothing
    /\ bootFile = Absent
    /\ maxPersisted = 0
    /\ wallMem = EmptyWall
    /\ wallFile = EmptyWall
    /\ SendIdle
    /\ PendingIdle
    /\ FunctionsIdle

\* state = storage_mgr.load_state(); mounts is what initialize() answers when
\* it is called
AliasLoad(mounts) ==
    LET mounted == is_mounted \/ mounts
        outcome == LoadOutcome(mounted, stateFile)
        fallback == ~mounted \/ stateFile.kind # "json"
        from_default ==
            IF fallback THEN ContainerKeys
            ELSE ContainerKeys \ DOMAIN json_load(stateFile.text)
    IN
    /\ aliasOps < MaxAliasOps
    /\ ~outcome.raised
    /\ aliasOps' = aliasOps + 1
    /\ is_mounted' = mounted
    /\ shared' = from_default
    /\ state' = [ k \in DOMAIN outcome.value |->
                    IF k \in from_default THEN self_default[k]
                    ELSE outcome.value[k] ]
    /\ aliasLast' = [ op |-> "load", fallback |-> fallback ]
    /\ UNCHANGED <<mono, recordVars, diskVars, now, pc, power_mgr,
                   battery_status, storage_mgr, tx_time,
                   pending_transmissions, transmission_result, backup_data,
                   historyVars, sendVars, pendingVars, storeVars, logVars,
                   msgVars, batteryVars, self_default>>

\* storage_mgr.record_transmission_attempt(state, time_slot, success, ...)
\* on the dict the last load_state returned
AliasRecord(time_slot, success) ==
    LET error_message == IF success THEN "" ELSE SEND_FAILURE
        after == record_transmission_attempt(state, time_slot, success,
                                             error_message, mono)
        appended == Append(state.failed_attempts,
                        AttemptRecord(time_slot, mono, success, error_message))
    IN
    /\ aliasOps < MaxAliasOps
    /\ state # NoState
    /\ aliasOps' = aliasOps + 1
    /\ mono' = mono + 1
    /\ state' = after
    /\ IF success
       THEN /\ self_default' =
                   IF "last_successful_transmissions" \in shared
                   THEN [ self_default EXCEPT
                            !.last_successful_transmissions =
                                after.last_successful_transmissions ]
                   ELSE self_default
            /\ shared' = shared \ { "failed_attempts" }
       ELSE /\ self_default' =
                   IF "failed_attempts" \in shared
                   THEN [ self_default EXCEPT !.failed_attempts = appended ]
                   ELSE self_default
            /\ shared' = IF Len(appended) > MAX_FAILED_ATTEMPTS
                         THEN shared \ { "failed_attempts" }
                         ELSE shared
    /\ aliasLast' = [ op |-> "record", time_slot |-> time_slot,
                      success |-> success ]
    /\ UNCHANGED <<recordVars, cycleVars, sendVars, pendingVars, storeVars,
                   logVars, msgVars, batteryVars>>

NextAlias ==
    \/ \E mounts \in BOOLEAN : AliasLoad(mounts)
    \/ \E time_slot \in SlotIds, success \in BOOLEAN :
           AliasRecord(time_slot, success)

SpecAlias == InitAlias /\ [][NextAlias]_vars

\* C38: a load_state that falls back to the defaults returns a state with no
\* failure record and no last successful transmission, whatever was recorded
\* into the dicts the same StorageManager returned before
C38_DefaultsIndependent ==
    (aliasLast.op = "load" /\ aliasLast.fallback)
        => /\ state.failed_attempts = << >>
           /\ state.last_successful_transmissions = EmptyMap

(***************************************************************************)
(* main(): the battery check of a wake cycle again                         *)
(***************************************************************************)
\* C39: a reported voltage below LOW_BATTERY_THRESHOLD never comes with the
\* recommendation normal, and the cycle that reported it does not call
\* perform_transmission
C39_NeverNormalBelowThreshold ==
    (battery_status # NoStatus
        /\ battery_status.voltage < LOW_BATTERY_THRESHOLD)
        => /\ battery_status.recommendation # "normal"
           /\ did.tx = 0

(***************************************************************************)
(* main(): the state record over the wake cycles                           *)
(***************************************************************************)
\* what C40 says of a state dict; a Python dict has one entry per key, as a
\* function has one value per argument
RecordsWellFormed(st) ==
    /\ "failed_attempts" \in DOMAIN st =>
           \A i \in DOMAIN st.failed_attempts :
               /\ st.failed_attempts[i].success = FALSE
               /\ st.failed_attempts[i].time_slot \in SlotIds
    /\ "last_successful_transmissions" \in DOMAIN st =>
           DOMAIN st.last_successful_transmissions \subseteq SlotIds
    /\ "sensor_calibration_offset" \in DOMAIN st =>
           st.sensor_calibration_offset = default_state.sensor_calibration_offset

\* the state dict a complete state file holds
FileState(file) == IF file.kind = "json" THEN json_load(file.text) ELSE NoState

\* C40: through the wake cycles that start with no state file, the state in
\* memory, the state file and its backup hold failure records with
\* success false and a configured slot only, last successful transmissions of
\* configured slots only, and the calibration offset of the default state
C40_StateWellFormed ==
    /\ RecordsWellFormed(state)
    /\ RecordsWellFormed(FileState(stateFile))
    /\ RecordsWellFormed(FileState(backupFile))

\* a saved state with a failure record of one slot and a success of another
C40_Witness ==
    /\ pc = "done"
    /\ LET st == FileState(stateFile) IN
       /\ st # NoState
       /\ Len(st.failed_attempts) >= 1
       /\ DOMAIN st.last_successful_transmissions # {}
    /\ Len(state.failed_attempts) >= 1

====
